---- MODULE Spec2Model ----
(***************************************************************************)
(* A model of confluence_markdown_exporter/confluence.py: the batch export *)
(* orchestrator (export_pages / export_page), the path-template resolver   *)
(* (Document._template_vars, export_path), the hashed-asset resolver       *)
(* (Page.Converter.convert_img), the converter's handlers of links, macros *)
(* and list items, the memoized remote lookups (Space.from_key,            *)
(* Page.from_id, Page.descendants) and the page-id cache of Space.export.  *)
(*                                                                         *)
(* Python values are kept with their type: a page id is either the int n   *)
(* or the str "n", and 3 == "3" is False in Python.  Writes to the local   *)
(* file system are taken to succeed; remote calls may fail in every way    *)
(* the client library can fail.                                            *)
(***************************************************************************)
EXTENDS Integers, Sequences, FiniteSets, TLC

\* ---------------------------------------------------------------- bounds
MaxPageId == 2
MaxLen == 2
MaxRuns == 2
MaxPieces == 2
MaxConversions == 2
MaxHandlerCalls == 1
MaxSpaceKeys == 102

\* functools.lru_cache(maxsize=...) of Space.from_key and of Page.from_id.
SpaceCacheMaxsize == 100
PageCacheMaxsize == 1000

PageNumbers == 1..MaxPageId
Roots == {"out"}

\* ------------------------------------------------------- Python values
\* The int n, and the str holding the decimal digits of n.
PyInt(n) == <<"int", n>>
PyStr(n) == <<"str", n>>
\* f"{page_id}": the decimal text of an int, the text itself for a str.
Text(x) == x[2]
\* f"{page_id}\n" written to the log: one line holding the text.
FormatLine(x) == Text(x)

Range(s) == {s[i] : i \in 1..Len(s)}

RECURSIVE SeqsUpTo(_, _)
SeqsUpTo(S, n) ==
    IF n = 0 THEN {<<>>}
    ELSE LET shorter == SeqsUpTo(S, n - 1)
         IN  shorter \cup {Append(s, x) : s \in {t \in shorter : Len(t) = n - 1}, x \in S}

\* The lists export_pages is called with: ints (its signature, Space.pages) or
\* strs (Space.export reading pages.txt), duplicates allowed.
InputLists ==
    {[i \in 1..Len(s) |-> PyInt(s[i])] : s \in SeqsUpTo(PageNumbers, MaxLen)}
    \cup {[i \in 1..Len(s) |-> PyStr(s[i])] : s \in SeqsUpTo(PageNumbers, MaxLen)}

\* ----------------------------------------------------------- exceptions
StyleError == "ValueError: Invalid markdown style"
\* Page.from_id: the remote fetch of the page, its attachments and its space.
FromIdErrors == {"HTTPError", "ApiError"}
\* export_markdown: export_path's remote lookups, and the converter's handlers.
MarkdownErrors == {"HTTPError", "StopIteration"}
\* export_attachments: Attachment.export_path's lookups and the download (an
\* HTTPError of the download itself is handled inside Attachment.export).
AttachmentErrors == {"ConnectionError"}

MarkdownStyles == {"GFM", "Obsidian"}
\* A value assigned to the setting after construction is not validated.
AssignableStyles == MarkdownStyles \cup {"Bogus"}

VARIABLES
    markdown_style,        \* converter_settings.markdown_style
    output_root_path,      \* converter_settings.output_root_path
    processed_pages_file,  \* root -> the lines of <root>/.cache/processed_pages.txt
    pc,                    \* position of the call in progress
    mode,                  \* "idle", "batch" (export_pages) or "single" (export_page)
    output_path,           \* the call's output_path argument
    page_ids,              \* export_pages' page_ids argument
    processed_pages,       \* export_pages' set read from the log
    pages_to_process,      \* export_pages' filtered list
    idx,                   \* position of the loop in pages_to_process
    runs,                  \* top-level calls started so far
    outcome,               \* how the last top-level call ended, "none" while one runs
    attempted,             \* history: the export_page calls of this call
    returned,              \* history: <<root, text>> of export_page calls that returned
    raised,                \* history: <<root, text>> of export_page calls that raised
    raised_run,            \* history: loop positions whose call raised, this run
    appended_run,          \* history: loop positions at which the log grew, this run
    style_error_at,        \* history: number of calls made when the style error rose
    page_path,             \* converter_settings.page_path
    attachment_path,       \* converter_settings.attachment_path
    from_id_cache,         \* the page ids Page.from_id's lru_cache holds
    path_last,             \* the last export_path evaluation and how it ended
    title_calls,           \* history: its _get_safe_ancestor_title calls, in order
    template_vars,         \* history: the variable set it substituted
    first_path,            \* history: entity -> the first path computed for it
    files,                 \* <<root, name>> of the files under <root>/assets
    conversions,           \* convert_img calls made so far
    last_img,              \* history: the last convert_img call and what it did
    converted,             \* history: <<root, src>> of the convert_img calls made
    referenced,            \* history: <<root, src, name>> of the files they referred to
    fetched_ok,            \* history: <<root, src>> whose download was saved
    \* -- the converter's element handlers
    handler_calls,         \* handler calls made so far
    last_call,             \* history: the last handler call and what it did
    page_id_by_name,       \* get_page_id_by_space_and_name's lru_cache
    linked_pages,          \* Page.from_id's lru_cache, as the handlers fill it
    page_properties,       \* Converter.page_properties
    \* -- the memoized remote lookups
    space_lru,             \* the keys Space.from_key's lru_cache holds, oldest first
    page_lru,              \* the keys Page.from_id's lru_cache holds, oldest first
    space_fetches,         \* history: space key -> fetches of it that returned
    page_fetches,          \* history: page key -> fetching calls of Page.from_id that returned
    last_descendants,      \* history: the last read of Page.descendants
    \* -- Space.export
    pages_file,            \* root -> <root>/.cache/pages.txt: whether it exists, its lines
    last_space_export,     \* history: the last Space.export call and what it did
    \* -- Page.export_attachments
    attachment_files,      \* <<root, name, content>> of the attachment files on disk
    att_idx,               \* attachments of the page the loop is done with
    att_log,               \* history: what the loop did with each, this page
    markdown_log           \* history: the last export_markdown call and how it ended

\* The locals of the call in progress, and the history kept of it.
callVars ==
    <<output_path, page_ids, processed_pages, pages_to_process, idx, attempted,
      raised_run, appended_run, style_error_at>>

batchVars ==
    <<markdown_style, output_root_path, processed_pages_file, pc, mode, runs,
      outcome, returned, raised, callVars>>

pathVars ==
    <<page_path, attachment_path, from_id_cache, path_last, title_calls,
      template_vars, first_path>>

imgVars == <<files, conversions, last_img, converted, referenced, fetched_ok>>

handlerVars ==
    <<handler_calls, last_call, page_id_by_name, linked_pages, page_properties>>

\* What the batch, the path resolver and the asset resolver leave alone.
lookupVars ==
    <<space_lru, page_lru, space_fetches, page_fetches, last_descendants>>

spaceVars == <<pages_file, last_space_export>>

attachVars == <<attachment_files, att_idx, att_log, markdown_log>>

restVars == <<handlerVars, lookupVars, spaceVars, attachVars>>

vars == <<batchVars, pathVars, imgVars, restVars>>

\* ---------------------------------------------------------------- text
\* A text is a sequence of symbols: a punctuation character, a word (a run
\* of the characters an identifier is made of, letter first), the decimal
\* text of an int, or a value sanitize_filename returned.
Ch(c) == <<"ch", c>>
W(w) == <<"word", w>>
IsWord(x) == x[1] = "word"

\* sanitize_filename(value): the file-system-safe form of one value, as one
\* symbol; different values have different forms.
sanitize_filename(t) == <<"sanitized", t>>

RECURSIVE JoinWith(_, _)
\* sep.join(texts)
JoinWith(sep, texts) ==
    IF texts = <<>> THEN <<>>
    ELSE IF Len(texts) = 1 THEN texts[1]
    ELSE texts[1] \o sep \o JoinWith(sep, Tail(texts))

\* ------------------------------------------------------------ the site
\* The space of the exported entities, with its homepage.
TheSpace == [key |-> "KEY", name |-> "Space Name", homepage |-> 1]
\* The remote pages path variables are looked up from, and their titles.
SitePages == {TheSpace.homepage, 2, 3}
RemoteTitle(id) ==
    CASE id = TheSpace.homepage -> "Home" [] id = 2 -> "Parent" [] OTHER -> "Child"

\* The entities whose path is computed: a page below page 2, and an
\* attachment of it (its ancestors end with its container).
Entities == {"page", "attachment"}
EntityTitle(e) == IF e = "page" THEN "Child" ELSE "image.png"
EntityAncestors(e) == IF e = "page" THEN <<2>> ELSE <<2, 3>>

\* ------------------------------------------------------- remote lookups
\* What fetching a page can give: the page, or an exception with the status
\* of its response (get_page_by_id turns a 404 into an ApiError).
FetchedOk == <<"ok", 200>>
FetchOutcomes ==
    {FetchedOk, <<"HTTPError", 403>>, <<"HTTPError", 500>>, <<"ApiError", 404>>}
NoExc == <<"none", 0>>

\* Page.from_id under functools.lru_cache: a cached page is returned without
\* a fetch; a fetch that raises is not cached.
Page_from_id(page_id, cache, remote) ==
    IF page_id \in cache THEN FetchedOk ELSE remote[page_id]

Returns(v) == [kind |-> "return", value |-> v, exc |-> NoExc]
Raises(exc) == [kind |-> "raise", value |-> "", exc |-> exc]

\* As if every HTTP error of the fetch gave the placeholder.
_get_safe_ancestor_title_AnyHTTPError(ancestor_id, fetch) ==
    IF fetch = FetchedOk THEN Returns(RemoteTitle(ancestor_id))
    ELSE IF fetch[1] = "HTTPError" THEN Returns("N/A")
    ELSE Raises(fetch)

\* Document._get_safe_ancestor_title, given what Page.from_id(ancestor_id) did.
_get_safe_ancestor_title(ancestor_id, fetch) ==
    IF fetch = FetchedOk THEN Returns(RemoteTitle(ancestor_id))
    ELSE IF fetch[1] = "HTTPError" /\ fetch[2] = 403 THEN Returns("N/A")
    ELSE Raises(fetch)

RECURSIVE AncestorTitles(_, _, _)
\* The generator of "ancestor_titles", consumed by join: one call of
\* _get_safe_ancestor_title per ancestor, in order, up to the first that raises.
AncestorTitles(ancestors, cache, remote) ==
    IF ancestors = <<>>
    THEN [titles |-> <<>>, cache |-> cache, exc |-> NoExc, calls |-> <<>>]
    ELSE LET a == Head(ancestors)
             fetch == Page_from_id(a, cache, remote)
             r == _get_safe_ancestor_title(a, fetch)
             call == [ancestor |-> a, fetch |-> fetch, kind |-> r.kind,
                      value |-> r.value, exc |-> r.exc]
         IN  IF r.kind = "raise"
             THEN [titles |-> <<>>, cache |-> cache, exc |-> r.exc,
                   calls |-> <<call>>]
             ELSE LET rest ==
                          AncestorTitles(
                              Tail(ancestors),
                              IF fetch = FetchedOk THEN cache \cup {a} ELSE cache,
                              remote)
                  IN  [titles |-> <<r.value>> \o rest.titles,
                       cache |-> rest.cache, exc |-> rest.exc,
                       calls |-> <<call>> \o rest.calls]

\* Document._template_vars: the dict, once the homepage title and the
\* ancestor titles are there.
Document_template_vars(e, titles) ==
    ("space_key" :> <<sanitize_filename(TheSpace.key)>>)
    @@ ("space_name" :> <<sanitize_filename(TheSpace.name)>>)
    @@ ("homepage_id" :> <<PyStr(TheSpace.homepage)>>)
    @@ ("homepage_title" :> <<sanitize_filename(RemoteTitle(TheSpace.homepage))>>)
    @@ ("ancestor_ids" :>
            JoinWith(<<Ch("/")>>,
                     [i \in 1..Len(EntityAncestors(e)) |-> <<PyStr(EntityAncestors(e)[i])>>]))
    @@ ("ancestor_titles" :>
            JoinWith(<<Ch("/")>>,
                     [i \in 1..Len(titles) |-> <<sanitize_filename(titles[i])>>]))

\* Page._template_vars
Page_template_vars(titles) ==
    Document_template_vars("page", titles)
    @@ ("page_id" :> <<PyStr(3)>>)
    @@ ("page_title" :> <<sanitize_filename(EntityTitle("page"))>>)

\* Attachment._template_vars
Attachment_template_vars(titles) ==
    Document_template_vars("attachment", titles)
    @@ ("attachment_id" :> <<W("att7")>>)
    @@ ("attachment_title" :> <<sanitize_filename(EntityTitle("attachment"))>>)
    @@ ("attachment_file_id" :> <<sanitize_filename("file7")>>)
    @@ ("attachment_extension" :> <<Ch("."), W("png")>>)

NoVars == ("none" :> <<>>)

\* The evaluation of _template_vars: the homepage is fetched first and
\* nothing guards it, then the ancestors.
TemplateVarsEval(e, cache, remote) ==
    LET home == Page_from_id(TheSpace.homepage, cache, remote)
    IN  IF home # FetchedOk
        THEN [vars |-> NoVars, cache |-> cache, exc |-> home, calls |-> <<>>]
        ELSE LET anc == AncestorTitles(EntityAncestors(e),
                                       cache \cup {TheSpace.homepage}, remote)
             IN  [vars |-> IF anc.exc # NoExc THEN NoVars
                           ELSE IF e = "page" THEN Page_template_vars(anc.titles)
                           ELSE Attachment_template_vars(anc.titles),
                  cache |-> anc.cache, exc |-> anc.exc, calls |-> anc.calls]

\* ------------------------------------------------------ path templates
Placeholder(name) == <<Ch("{"), W(name), Ch("}")>>

\* ConverterSettings.page_path's default
DefaultPagePath ==
    Placeholder("space_name") \o <<Ch("/")>> \o Placeholder("homepage_title")
    \o <<Ch("/")>> \o Placeholder("ancestor_titles") \o <<Ch("/")>>
    \o Placeholder("page_title") \o <<Ch("."), W("md")>>

\* ConverterSettings.attachment_path's default
DefaultAttachmentPath ==
    Placeholder("space_name") \o <<Ch("/"), W("attachments"), Ch("/")>>
    \o Placeholder("attachment_id") \o <<Ch("-")>>
    \o Placeholder("attachment_title")

\* The templates a user sets: any text made of up to MaxPieces of these.
TemplatePieces ==
    {Placeholder("page_title"), Placeholder("nope"), <<Ch("/")>>, <<Ch("{")>>,
     <<Ch("}")>>, <<Ch("$")>>, <<W("page_title")>>}

RECURSIVE Flatten(_)
Flatten(ss) == IF ss = <<>> THEN <<>> ELSE Head(ss) \o Flatten(Tail(ss))

Templates == {Flatten(ps) : ps \in SeqsUpTo(TemplatePieces, MaxPieces)}

RECURSIVE ReplaceBrace(_)
\* template.replace("{", "${")
ReplaceBrace(s) ==
    IF s = <<>> THEN <<>>
    ELSE IF Head(s) = Ch("{") THEN <<Ch("$"), Ch("{")>> \o ReplaceBrace(Tail(s))
    ELSE <<Head(s)>> \o ReplaceBrace(Tail(s))

RECURSIVE IdentEnd(_, _)
\* The last position of the identifier that starts at i (i - 1 if none does).
IdentEnd(s, i) ==
    IF i <= Len(s) /\ IsWord(s[i]) THEN IdentEnd(s, i + 1) ELSE i - 1

\* mapping[name] of safe_substitute: the value, or on a KeyError the matched
\* text as it stands.
Lookup(name, matched, mapping) ==
    IF Len(name) = 1 /\ name[1][2] \in DOMAIN mapping
    THEN mapping[name[1][2]] ELSE matched

RECURSIVE Substitute(_, _, _)
\* string.Template(s).safe_substitute(mapping) from position i on: "$$" is
\* "$", "$name" and "${name}" are the value of name when it has one, and
\* every other text, a lone "$" too, stays.
Substitute(s, i, mapping) ==
    IF i > Len(s) THEN <<>>
    ELSE IF s[i] # Ch("$") THEN <<s[i]>> \o Substitute(s, i + 1, mapping)
    ELSE IF i + 1 <= Len(s) /\ s[i + 1] = Ch("$")
    THEN <<Ch("$")>> \o Substitute(s, i + 2, mapping)
    ELSE IF i + 1 <= Len(s) /\ IsWord(s[i + 1])
    THEN LET j == IdentEnd(s, i + 1)
         IN  Lookup(SubSeq(s, i + 1, j), SubSeq(s, i, j), mapping)
             \o Substitute(s, j + 1, mapping)
    ELSE IF /\ i + 2 <= Len(s)
            /\ s[i + 1] = Ch("{")
            /\ IsWord(s[i + 2])
            /\ IdentEnd(s, i + 2) + 1 <= Len(s)
            /\ s[IdentEnd(s, i + 2) + 1] = Ch("}")
    THEN LET j == IdentEnd(s, i + 2)
         IN  Lookup(SubSeq(s, i + 2, j), SubSeq(s, i, j + 1), mapping)
             \o Substitute(s, j + 2, mapping)
    ELSE <<Ch("$")>> \o Substitute(s, i + 1, mapping)

safe_substitute(s, mapping) == Substitute(s, 1, mapping)

RECURSIVE SplitPath(_, _, _)
\* The text split at every "/".
SplitPath(s, cur, acc) ==
    IF s = <<>> THEN Append(acc, cur)
    ELSE IF Head(s) = Ch("/") THEN SplitPath(Tail(s), <<>>, Append(acc, cur))
    ELSE SplitPath(Tail(s), Append(cur, Head(s)), acc)

RECURSIVE LeadingSlashes(_)
LeadingSlashes(s) ==
    IF s # <<>> /\ Head(s) = Ch("/") THEN 1 + LeadingSlashes(Tail(s)) ELSE 0

\* pathlib.Path(text) on a POSIX system: empty and "." parts are dropped, a
\* leading "/" is kept (two of them are kept as two), an empty path is ".".
Path(s) ==
    LET parts == SelectSeq(SplitPath(s, <<>>, <<>>),
                           LAMBDA c : c # <<>> /\ c # <<Ch(".")>>)
        k == LeadingSlashes(s)
        root == IF k = 0 THEN <<>>
                ELSE IF k = 2 THEN <<Ch("/"), Ch("/")>> ELSE <<Ch("/")>>
        p == root \o JoinWith(<<Ch("/")>>, parts)
    IN  IF p = <<>> THEN <<Ch(".")>> ELSE p

\* Page.export_path / Attachment.export_path once _template_vars is there.
FormatPath(template, mapping) == Path(safe_substitute(ReplaceBrace(template), mapping))

NoPath == [entity |-> "none", kind |-> "none", path |-> <<>>, exc |-> NoExc]

\* --------------------------------------------------------------- images
\* The src of an <img> is a text of tokens.  A data: URI is "data:", the
\* mime type, the encoding marker (";base64," or another, up to the comma)
\* and the payload, whose line breaks are tokens of their own.
DataUri(mime, marker, payload) == <<"data:", mime, marker>> \o payload

Payloads == {<<"AAAA">>, <<"BBBB">>, <<"AAA">>, <<"AAAA", "\n", "BBBB">>}

DataSrcs ==
    {DataUri("image/png", ";base64,", p) : p \in Payloads}
    \cup {DataUri("image/svg+xml", ";utf8,", <<"AAAA">>)}

\* A URL is its part up to the path, the path's stem and the path's
\* extension ("" if it has none); a src that starts with "/" is relative to
\* the Confluence base URL.
ConfluenceUrl == "https://confluence.example.com"
JiraPrefix == "https://jira.example.com/"
UrlSrcs == {<<"/", "img", ".png">>, <<"/", "img", "">>, <<JiraPrefix, "img", "">>}

Srcs == DataSrcs \cup UrlSrcs

\* What a GET can give: the request raises, the status is an error (then
\* raise_for_status raises), or a 200 with a Content-Type header.
ContentTypes == {"image/png", "text/html", "text/html; charset=utf-8", ""}
Responses ==
    {<<"ConnectionError", "">>, <<"HTTPError", "">>}
    \cup {<<"ok", ct>> : ct \in ContentTypes}
NoResponse == <<"none", "">>

\* hashlib.md5(text.encode()).hexdigest(): different texts, different digests.
Md5(text) == <<"md5", text>>

\* mimetypes.guess_extension(type), "" for None.
guess_extension(type) ==
    CASE type = "image/png" -> ".png"
      [] type = "image/gif" -> ".gif"
      [] type = "image/svg+xml" -> ".svg"
      [] type = "text/html" -> ".html"
      [] OTHER -> ""

\* guess_extension(...) or ".bin"
OrBin(x) == IF x = "" THEN ".bin" ELSE x

\* src.startswith("data:")
StartsWithData(src) == src[1] = "data:"

\* re.match(r"data:([^;]+);base64,(.+)", src): "." matches no line break, so
\* the payload must begin with a character that is none.
DataMatches(src) == Len(src) >= 4 /\ src[3] = ";base64," /\ src[4] # "\n"

RECURSIVE FirstLine(_)
FirstLine(s) ==
    IF s = <<>> \/ Head(s) = "\n" THEN <<>> ELSE <<Head(s)>> \o FirstLine(Tail(s))

\* mime_type_match.group(2): "(.+)" ends at the first line break.
Base64Data(src) == FirstLine(SubSeq(src, 4, Len(src)))

RECURSIVE B64Chars(_)
\* The number of base64 characters of the text.
B64Chars(s) ==
    IF s = <<>> THEN 0
    ELSE (IF Head(s) = "AAA" THEN 3 ELSE 4) + B64Chars(Tail(s))

\* base64.b64decode(text) returns (it raises on incorrect padding).
B64Decodes(text) == B64Chars(text) % 4 = 0

\* As if only a file with the extension ".png" were looked for.
Glob_OnlyPng(fs, root, hash) == {f \in fs : f[1] = root /\ f[2] = <<hash, ".png">>}

\* assets_dir.glob(f"{src_hash}.*"): the files of the root's assets directory
\* named by the hash and any extension.
Glob(fs, root, hash) ==
    {f \in fs : f[1] = root /\ f[2][1] = hash /\ f[2][2] # ""}

NoFile == <<Md5(<<>>), "">>
NoImg ==
    [src |-> <<>>, root |-> ".", again |-> FALSE, get |-> FALSE,
     decode |-> FALSE, response |-> NoResponse, wrote |-> FALSE, md |-> FALSE,
     file |-> NoFile]

\* return "": nothing written, nothing referenced.
Dropped(fs, get) ==
    [files |-> fs, get |-> get, decode |-> FALSE, wrote |-> FALSE, md |-> FALSE,
     file |-> NoFile]

\* save_file(assets_dir / name, content): the file is there afterwards.
save_file(fs, root, name) == fs \cup {<<root, name>>}

\* The file is there (written now, or found): the markup refers to it.
Linked(fs, root, name, get, wrote) ==
    [files |-> IF wrote THEN save_file(fs, root, name) ELSE fs, get |-> get,
     decode |-> FALSE, wrote |-> wrote, md |-> TRUE, file |-> name]

\* The inline base64 branch.
Base64Image(fs, root, src) ==
    LET name == <<Md5(Base64Data(src)), OrBin(guess_extension(src[2]))>>
    IN  IF <<root, name>> \in fs THEN Linked(fs, root, name, FALSE, FALSE)
        ELSE IF B64Decodes(Base64Data(src))
        THEN [Linked(fs, root, name, FALSE, TRUE) EXCEPT !.decode = TRUE]
        ELSE [Dropped(fs, FALSE) EXCEPT !.decode = TRUE]

\* confluence.url + src if src.startswith("/") else src
Url(src) == IF src[1] = "/" THEN <<ConfluenceUrl>> \o src ELSE src
\* urlparse(url).netloc.startswith('jira')
NetlocStartsWithJira(url) == url[1] = JiraPrefix
\* os.path.splitext(urlparse(url).path)[1].lower()
UrlExtension(url) == url[Len(url)]
known_image_extensions ==
    {".jpg", ".jpeg", ".png", ".gif", ".svg", ".webp", ".bmp", ".tiff", ".ico"}
\* 'text/html' in content_type.lower()
ContainsTextHtml(content_type) ==
    content_type \in {"text/html", "text/html; charset=utf-8"}

\* The extension of the downloaded file: from the content type, else from
\* the URL when it is a known image extension, else ".bin".
DownloadExtension(content_type, url) ==
    LET extension == OrBin(guess_extension(content_type))
    IN  IF /\ extension = ".bin"
           /\ UrlExtension(url) # ""
           /\ UrlExtension(url) \in known_image_extensions
        THEN UrlExtension(url) ELSE extension

\* As if the file were created before the response is looked at.
Download_LeavesFile(fs, root, src, response) ==
    IF \/ StartsWithData(src)
       \/ response[1] # "ok"
       \/ NetlocStartsWithJira(Url(src)) /\ ContainsTextHtml(response[2])
    THEN [Dropped(fs, TRUE) EXCEPT
              !.files = save_file(fs, root, <<Md5(src), ".bin">>)]
    ELSE Linked(fs, root, <<Md5(src), DownloadExtension(response[2], Url(src))>>,
                TRUE, TRUE)

\* The download of a src no file was found for.  A data: URI that is not
\* base64 comes here too, and the session has no adapter for its scheme.
Download(fs, root, src, response) ==
    IF \/ StartsWithData(src)
       \/ response[1] # "ok"
       \/ NetlocStartsWithJira(Url(src)) /\ ContainsTextHtml(response[2])
    THEN Dropped(fs, TRUE)
    ELSE Linked(fs, root, <<Md5(src), DownloadExtension(response[2], Url(src))>>,
                TRUE, TRUE)

\* What convert_img can do with a src that is no attachment of the page.
ImgResults(fs, root, src, response) ==
    IF StartsWithData(src) /\ DataMatches(src) THEN {Base64Image(fs, root, src)}
    ELSE LET existing_files == Glob(fs, root, Md5(src))
         IN  IF existing_files # {}
             THEN {Linked(fs, root, f[2], FALSE, FALSE) : f \in existing_files}
             ELSE {Download(fs, root, src, response)}

\* ------------------------------------------------------------------ Init
NoCall ==
    /\ output_path = "."
    /\ page_ids = <<>>
    /\ processed_pages = {}
    /\ pages_to_process = <<>>
    /\ idx = 0
    /\ attempted = <<>>
    /\ raised_run = {}
    /\ appended_run = {}
    /\ style_error_at = 0

InitCall ==
    /\ output_root_path = "."
    /\ processed_pages_file = [r \in Roots |-> {}]
    /\ pc = "idle"
    /\ mode = "idle"
    /\ runs = 0
    /\ outcome = "none"
    /\ returned = {}
    /\ raised = {}
    /\ NoCall

InitBatch ==
    /\ markdown_style \in MarkdownStyles
    /\ InitCall

\* Nothing looked up yet, no path computed yet.
InitLookups ==
    /\ from_id_cache = {}
    /\ path_last = NoPath
    /\ title_calls = <<>>
    /\ template_vars = NoVars
    /\ first_path = [e \in Entities |-> <<>>]

InitDefaultPaths ==
    /\ page_path = DefaultPagePath
    /\ attachment_path = DefaultAttachmentPath
    /\ InitLookups

\* An empty assets directory under every root.
InitImg ==
    /\ files = {}
    /\ conversions = 0
    /\ last_img = NoImg
    /\ converted = {}
    /\ referenced = {}
    /\ fetched_ok = {}

NoFetch == <<"none", 0>>
NoHandlerCall ==
    [handler |-> "none", el |-> <<>>, fetch |-> NoFetch, lookup |-> NoFetch,
     kind |-> "none", value |-> <<>>, exc |-> NoExc]

\* No handler called yet, nothing memoized yet.
InitHandlers ==
    /\ handler_calls = 0
    /\ last_call = NoHandlerCall
    /\ page_id_by_name = <<>>
    /\ linked_pages = {}
    /\ page_properties = {}

\* The values Page.from_id is called with: an int, or the str of a link's
\* container id or of a line of pages.txt.
PageKeys == {PyInt(1), PyStr(1), PyInt(2), PyStr(2)}

NoDescendants ==
    [page |-> <<"none", 0>>, answer |-> <<"none", 0>>, kind |-> "none",
     exc |-> NoExc]

\* Both caches are empty when the process starts.
InitLookupCaches ==
    /\ space_lru = <<>>
    /\ page_lru = <<>>
    /\ space_fetches = <<>>
    /\ page_fetches = [k \in PageKeys |-> 0]
    /\ last_descendants = NoDescendants

NoPagesFile == [exists |-> FALSE, lines |-> <<>>]
NoSpaceExport ==
    [root |-> "none", space |-> "none", homepage |-> 0, existed |-> FALSE, readable |-> FALSE,
     before |-> <<>>, enumerated |-> FALSE, answer |-> <<"none", <<>>>>,
     kind |-> "none", passed |-> <<>>]

\* No pages.txt under any root.
InitSpace ==
    /\ pages_file = [r \in Roots |-> NoPagesFile]
    /\ last_space_export = NoSpaceExport

\* No attachment file on disk yet.
InitAttach ==
    /\ attachment_files = {}
    /\ att_idx = 0
    /\ att_log = <<>>
    /\ markdown_log = [run |-> 0, pos |-> 0, kind |-> "none"]

InitRest == InitHandlers /\ InitLookupCaches /\ InitSpace /\ InitAttach

Init == InitBatch /\ InitDefaultPaths /\ InitImg /\ InitRest

\* --------------------------------------------------------- export_pages
\* {line.strip() for line in f}: every element is a str.  The file is held
\* as the set of its lines: this, its only reader, builds a set of them, so
\* neither their order nor their repetition is seen by the program.
ReadProcessed(lines) == {PyStr(l) : l \in lines}

\* As if an id were kept only where it occurs first in the input.
FilterProcessed_FirstOccurrences(ids, processed) ==
    LET kept == {i \in 1..Len(ids) :
                    /\ ids[i] \notin processed
                    /\ \A j \in 1..(i - 1) : ids[j] # ids[i]}
        Nth(S, n) == CHOOSE i \in S : Cardinality({j \in S : j < i}) = n - 1
    IN  [n \in 1..Cardinality(kept) |-> ids[Nth(kept, n)]]

\* [page_id for page_id in page_ids if page_id not in processed_pages]
FilterProcessed(ids, processed) == SelectSeq(ids, LAMBDA x : x \notin processed)

\* As if the clause were "except HTTPError".
Catches_OnlyHTTPError(exc) == exc = "HTTPError"

\* except Exception: every exception the export of a page raises is one.
Catches(exc) == TRUE

\* As if the id were appended in a finally clause, failed or not.
ExceptLog_Appends(lines, page_id) == lines \cup {FormatLine(page_id)}

\* What the except clause of export_pages does to the log: it only prints.
ExceptLog(lines, page_id) == lines

\* What the try body does to the log once export_page returned.
AppendLog(lines, page_id) == lines \cup {FormatLine(page_id)}

CurrentPage == pages_to_process[idx]

\* The top-level call is over (it returned or the process was killed): its
\* locals are gone.
CallEnds(how) ==
    /\ pc' = "idle"
    /\ mode' = "idle"
    /\ outcome' = how
    /\ output_path' = "."
    /\ page_ids' = <<>>
    /\ processed_pages' = {}
    /\ pages_to_process' = <<>>
    /\ idx' = 0
    /\ attempted' = <<>>
    /\ raised_run' = {}
    /\ appended_run' = {}
    /\ style_error_at' = 0

\* The setting is assigned between two calls.
SetMarkdownStyle(s) ==
    /\ pc = "idle"
    /\ UNCHANGED <<pathVars, imgVars, restVars>>
    /\ runs < MaxRuns
    /\ s # markdown_style
    /\ markdown_style' = s
    /\ UNCHANGED <<output_root_path, processed_pages_file, pc, mode, runs,
                   outcome, returned, raised, callVars>>

\* export_pages(page_ids, output_path) up to its loop.
export_pages_starts(ids, path) ==
    /\ pc = "idle"
    /\ runs < MaxRuns
    /\ runs' = runs + 1
    /\ output_root_path' = path
    /\ output_path' = path
    /\ page_ids' = ids
    /\ processed_pages' = ReadProcessed(processed_pages_file[path])
    /\ pages_to_process' = FilterProcessed(ids, processed_pages')
    /\ idx' = 0
    /\ mode' = "batch"
    /\ pc' = "loop"
    /\ outcome' = "none"
    /\ attempted' = <<>>
    /\ raised_run' = {}
    /\ appended_run' = {}
    /\ style_error_at' = 0
    /\ UNCHANGED <<markdown_style, processed_pages_file, returned, raised>>

\* export_pages called directly.
export_pages(ids, path) ==
    /\ export_pages_starts(ids, path)
    /\ UNCHANGED <<pathVars, imgVars, restVars>>

\* The for loop takes the next page and calls export_page, which first sets
\* the global output root.
LoopNext ==
    /\ pc = "loop"
    /\ UNCHANGED <<pathVars, imgVars, restVars>>
    /\ idx < Len(pages_to_process)
    /\ idx' = idx + 1
    /\ output_root_path' = output_path
    /\ attempted' = Append(attempted, pages_to_process[idx + 1])
    /\ pc' = "from_id"
    /\ UNCHANGED <<markdown_style, processed_pages_file, mode, runs, outcome,
                   returned, raised, output_path, page_ids, processed_pages,
                   pages_to_process, raised_run, appended_run, style_error_at>>

\* The loop is exhausted: export_pages returns.
LoopExit ==
    /\ pc = "loop"
    /\ UNCHANGED <<pathVars, imgVars, restVars>>
    /\ idx = Len(pages_to_process)
    /\ CallEnds("returned")
    /\ UNCHANGED <<markdown_style, output_root_path, processed_pages_file, runs,
                   returned, raised>>

\* As if export_page left the global output root as it found it.
export_page_KeepsRoot(page_id, path) ==
    /\ pc = "idle"
    /\ runs < MaxRuns
    /\ UNCHANGED <<pathVars, imgVars, restVars>>
    /\ runs' = runs + 1
    /\ output_path' = path
    /\ page_ids' = <<page_id>>
    /\ processed_pages' = {}
    /\ pages_to_process' = <<page_id>>
    /\ idx' = 1
    /\ mode' = "single"
    /\ pc' = "from_id"
    /\ outcome' = "none"
    /\ attempted' = <<page_id>>
    /\ raised_run' = {}
    /\ appended_run' = {}
    /\ style_error_at' = 0
    /\ UNCHANGED <<markdown_style, output_root_path, processed_pages_file, returned,
                   raised>>

\* export_page called directly (one page, no log, nothing catches).
export_page(page_id, path) ==
    /\ pc = "idle"
    /\ UNCHANGED <<pathVars, imgVars, restVars>>
    /\ runs < MaxRuns
    /\ runs' = runs + 1
    /\ output_root_path' = path
    /\ output_path' = path
    /\ page_ids' = <<page_id>>
    /\ processed_pages' = {}
    /\ pages_to_process' = <<page_id>>
    /\ idx' = 1
    /\ mode' = "single"
    /\ pc' = "from_id"
    /\ outcome' = "none"
    /\ attempted' = <<page_id>>
    /\ raised_run' = {}
    /\ appended_run' = {}
    /\ style_error_at' = 0
    /\ UNCHANGED <<markdown_style, processed_pages_file, returned, raised>>

\* An exception leaves export_page: export_pages catches it, prints and goes
\* on with the next page; a direct call lets it reach the caller, and the
\* process ends with it (what a later process finds is what Kill leaves).
Raise(exc) ==
    /\ raised' = raised \cup {<<output_path, Text(CurrentPage)>>}
    /\ raised_run' = raised_run \cup {idx}
    /\ style_error_at' =
           IF exc = StyleError /\ style_error_at = 0 THEN Len(attempted)
           ELSE style_error_at
    /\ IF mode = "batch" /\ Catches(exc)
       THEN /\ pc' = "loop"
            /\ processed_pages_file' =
                   [processed_pages_file EXCEPT
                        ![output_path] = ExceptLog(@, CurrentPage)]
            /\ appended_run' =
                   IF processed_pages_file' # processed_pages_file
                   THEN appended_run \cup {idx} ELSE appended_run
            /\ UNCHANGED outcome
       ELSE /\ pc' = "crashed"
            /\ outcome' = exc
            /\ UNCHANGED <<processed_pages_file, appended_run>>
    /\ UNCHANGED <<markdown_style, output_root_path, mode, runs, returned,
                   output_path, page_ids, processed_pages, pages_to_process, idx,
                   attempted>>

\* page = Page.from_id(page_id)
PageFromId ==
    /\ pc = "from_id"
    /\ UNCHANGED <<pathVars, imgVars, restVars>>
    /\ \/ /\ pc' = "export_markdown"
          /\ UNCHANGED <<markdown_style, output_root_path, processed_pages_file,
                         mode, runs, outcome, returned, raised, callVars>>
       \/ \E exc \in FromIdErrors : Raise(exc)

\* Page.html as Converter.markdown reaches it: the style decides, and a value
\* that is neither style raises.
HtmlRaises(style) == style \notin MarkdownStyles

\* As if an exception of the conversion were swallowed and the export of
\* the page went on.
export_markdown_raises_GoesOn ==
    /\ pc' = "export_attachments"
    /\ UNCHANGED <<markdown_style, output_root_path, processed_pages_file,
                   mode, runs, outcome, returned, raised, callVars>>

\* export_markdown raises: export_path's lookups or a handler fail, or the
\* style is neither of the two.
export_markdown_raises ==
    \/ \E exc \in MarkdownErrors : Raise(exc)
    \/ /\ HtmlRaises(markdown_style)
       /\ Raise(StyleError)

\* export_markdown saves the file and returns.
export_markdown_returns ==
    /\ ~HtmlRaises(markdown_style)
    /\ pc' = "export_attachments"
    /\ UNCHANGED <<markdown_style, output_root_path, processed_pages_file,
                   mode, runs, outcome, returned, raised, callVars>>

\* page.export_markdown: export_path, then the conversion, then save_file.
ExportMarkdown ==
    /\ pc = "export_markdown"
    /\ UNCHANGED <<pathVars, imgVars, restVars>>
    /\ \/ export_markdown_raises
       \/ export_markdown_returns

\* export_attachments returned, and export_page with it.
export_page_returns ==
    /\ returned' = returned \cup {<<output_path, Text(CurrentPage)>>}
    /\ IF mode = "batch"
       THEN /\ pc' = "append"
            /\ UNCHANGED <<mode, outcome, callVars>>
       ELSE CallEnds("returned")
    /\ UNCHANGED <<markdown_style, output_root_path, processed_pages_file,
                   runs, raised>>

\* page.export_attachments, after which export_page returns.
ExportAttachments ==
    /\ pc = "export_attachments"
    /\ UNCHANGED <<pathVars, imgVars, restVars>>
    /\ \/ \E exc \in AttachmentErrors : Raise(exc)
       \/ export_page_returns

\* with open(processed_pages_file, "a") as f: f.write(f"{page_id}\n")
AppendProcessed ==
    /\ pc = "append"
    /\ UNCHANGED <<pathVars, imgVars, restVars>>
    /\ processed_pages_file' =
           [processed_pages_file EXCEPT ![output_path] = AppendLog(@, CurrentPage)]
    /\ appended_run' = appended_run \cup {idx}
    /\ pc' = "loop"
    /\ UNCHANGED <<markdown_style, output_root_path, mode, runs, outcome, returned,
                   raised, output_path, page_ids, processed_pages,
                   pages_to_process, idx, attempted, raised_run, style_error_at>>

\* The process is killed while a call is in progress; the files stay.
Kill ==
    /\ pc \notin {"idle", "crashed"}
    /\ UNCHANGED <<pathVars, imgVars, restVars>>
    /\ CallEnds("killed")
    /\ UNCHANGED <<markdown_style, output_root_path, processed_pages_file, runs,
                   returned, raised>>

Next ==
    \/ \E s \in AssignableStyles : SetMarkdownStyle(s)
    \/ \E ids \in InputLists, path \in Roots : export_pages(ids, path)
    \/ \E n \in PageNumbers, path \in Roots : export_page(PyInt(n), path)
    \/ LoopNext
    \/ LoopExit
    \/ PageFromId
    \/ ExportMarkdown
    \/ ExportAttachments
    \/ AppendProcessed
    \/ Kill

Spec == Init /\ [][Next]_vars

\* ----------------------------------------------------------- export_path
\* The pages whose fetch the evaluation can reach: the homepage and the
\* ancestors, those the cache holds left out.
Fetched(e, cache) ==
    ({TheSpace.homepage} \cup Range(EntityAncestors(e))) \ cache

\* Page.export_path / Attachment.export_path, evaluated while the remote
\* answers as `remote` says (what it would answer for a page that is not
\* fetched makes no difference, and is left at one value).
export_path(e, remote) ==
    /\ \A p \in SitePages \ Fetched(e, from_id_cache) : remote[p] = FetchedOk
    /\ \E ev \in {TemplateVarsEval(e, from_id_cache, remote)} :
           /\ from_id_cache' = ev.cache
           /\ title_calls' = ev.calls
           /\ template_vars' = ev.vars
           /\ IF ev.exc # NoExc
              THEN /\ path_last' = [entity |-> e, kind |-> "raise", path |-> <<>>,
                                    exc |-> ev.exc]
                   /\ UNCHANGED first_path
              ELSE \E p \in {FormatPath(IF e = "page" THEN page_path
                                        ELSE attachment_path, ev.vars)} :
                       /\ path_last' = [entity |-> e, kind |-> "path", path |-> p,
                                        exc |-> NoExc]
                       /\ first_path' = IF first_path[e] = <<>>
                                        THEN [first_path EXCEPT ![e] = p]
                                        ELSE first_path
    /\ UNCHANGED <<page_path, attachment_path, batchVars, imgVars, restVars>>

Page_export_path(remote) == export_path("page", remote)

Attachment_export_path(remote) == export_path("attachment", remote)

\* The two templates are the defaults, or the user set both to a template.
InitPath ==
    /\ markdown_style = "GFM"
    /\ InitCall
    /\ \/ page_path = DefaultPagePath /\ attachment_path = DefaultAttachmentPath
       \/ page_path \in Templates /\ attachment_path = page_path
    /\ InitLookups
    /\ InitImg
    /\ InitRest

NextPath ==
    \/ \E remote \in [SitePages -> FetchOutcomes] : Page_export_path(remote)
    \/ \E remote \in [SitePages -> FetchOutcomes] : Attachment_export_path(remote)

SpecPath == InitPath /\ [][NextPath]_vars

\* ----------------------------------------------------------- convert_img
\* Page.Converter.convert_img for an <img> that is no attachment of the page,
\* called while the page's body is converted.
convert_img(src, response) ==
    /\ pc = "export_markdown"
    /\ conversions < MaxConversions
    /\ conversions' = conversions + 1
    /\ converted' = converted \cup {<<output_root_path, src>>}
    /\ \E r \in ImgResults(files, output_root_path, src, response) :
           /\ files' = r.files
           /\ last_img' =
                  [src |-> src, root |-> output_root_path,
                   again |-> <<output_root_path, src>> \in converted,
                   get |-> r.get, decode |-> r.decode,
                   response |-> IF r.get THEN response ELSE NoResponse,
                   wrote |-> r.wrote, md |-> r.md, file |-> r.file]
           /\ referenced' =
                  IF r.md THEN referenced \cup {<<output_root_path, src, r.file>>}
                  ELSE referenced
           /\ fetched_ok' =
                  IF r.get /\ r.wrote THEN fetched_ok \cup {<<output_root_path, src>>}
                  ELSE fetched_ok
    /\ UNCHANGED <<batchVars, pathVars, restVars>>

ImgRoots == {"out", "out2"}

NextImg ==
    \/ \E path \in ImgRoots : export_page(PyInt(1), path)
    \/ PageFromId
    \/ \E src \in Srcs, response \in Responses : convert_img(src, response)
    \/ ExportMarkdown
    \/ ExportAttachments

SpecImg == Init /\ [][NextImg]_vars

\* Invocations of export_pages and of export_page, one after the other, into
\* different roots, with images converted while a page's body is.
RootSrcs == {<<"/", "img", ".png">>, DataUri("image/png", ";base64,", <<"AAAA">>)}
RootResponses == {<<"HTTPError", "">>, <<"ok", "image/png">>}
RootLists == {<<PyInt(1)>>, <<PyInt(2), PyInt(1)>>}

\* No log under either root, nothing called yet.
InitRoots ==
    /\ markdown_style = "GFM"
    /\ output_root_path = "."
    /\ processed_pages_file = [r \in ImgRoots |-> {}]
    /\ pc = "idle"
    /\ mode = "idle"
    /\ runs = 0
    /\ outcome = "none"
    /\ returned = {}
    /\ raised = {}
    /\ NoCall
    /\ InitDefaultPaths
    /\ InitImg
    /\ InitRest

NextRoots ==
    \/ \E ids \in RootLists, path \in ImgRoots : export_pages(ids, path)
    \/ \E path \in ImgRoots : export_page(PyInt(1), path)
    \/ LoopNext
    \/ LoopExit
    \/ PageFromId
    \/ \E src \in RootSrcs, response \in RootResponses : convert_img(src, response)
    \/ ExportMarkdown
    \/ ExportAttachments
    \/ AppendProcessed

SpecRoots == InitRoots /\ [][NextRoots]_vars

\* ------------------------------------------------------ element handlers
\* The handlers of Page.Converter, called for the elements of the page's
\* body while export_markdown converts it.  An exception that leaves a
\* handler leaves the conversion and export_page with it.  The export paths
\* of the page and of its attachments are taken to be resolved.

\* el.get(name) of an attribute the element does not have; str() of it is
\* the text "None".
None == "None"
\* bool(value) of what el.get gives: neither None nor the empty string.
Truthy(v) == v \notin {None, ""}

\* int(text) of a text of decimal digits.
int(text) == CASE text = "0" -> 0 [] text = "1" -> 1 [] text = "2" -> 2 [] text = "3" -> 3

EmptyStr == <<"str", "">>
Attachment(id, file_id, title) == <<"Attachment", id, file_id, title>>
StopIteration == <<"StopIteration", 0>>
AttributeError == <<"AttributeError", 0>>

\* The page being converted, and Page.attachments of the pages of the site,
\* by the key Page.from_id is called with.
ThisPage == PyInt(1)
Attachments(page_key) ==
    IF Text(page_key) = 1
    THEN <<Attachment("att1", "file1", "a.png"), Attachment("att3", "file3", "d"),
           Attachment("att4", "file4", "d.png")>>
    ELSE <<Attachment("att2", "file2", "b.pdf")>>

\* Page.from_id(key) inside a handler: cached under the very value it was
\* called with, fetched otherwise, and cached when the fetch returned.
HandlerFetch(key, cache, answer) == Page_from_id(key, cache, (key :> answer))
CacheAfter(key, cache, fetch) == IF fetch = FetchedOk THEN cache \cup {key} ELSE cache

\* next(attachment for attachment in self.attachments if attachment.id == id)
get_attachment_by_id(attachments, id) ==
    LET found == SelectSeq(attachments, LAMBDA a : a[2] = id)
    IN  IF found = <<>> THEN Raises(StopIteration) ELSE Returns(Head(found))

\* next(attachment for ... if attachment.file_id == file_id)
get_attachment_by_file_id(attachments, file_id) ==
    LET found == SelectSeq(attachments, LAMBDA a : a[3] = file_id)
    IN  IF found = <<>> THEN Raises(StopIteration) ELSE Returns(Head(found))

\* The container page the element's lookup fetches, if it fetches one.
ContainerKey(el) == PyStr(int(el.container_id))
FetchesContainer(el) ==
    ~Truthy(el.media_id) /\ Truthy(el.resource_id) /\ Truthy(el.container_id)

\* Page.get_attachment_from_element, given what Page.from_id(container) did.
get_attachment_from_element(el, fetch) ==
    IF Truthy(el.media_id)
    THEN get_attachment_by_file_id(Attachments(ThisPage), el.media_id)
    ELSE IF ~Truthy(el.resource_id) \/ ~Truthy(el.container_id)
    THEN Returns(EmptyStr)
    ELSE IF fetch # FetchedOk THEN Raises(fetch)
    ELSE get_attachment_by_id(Attachments(ContainerKey(el)), el.resource_id)

\* os.path.relpath(target.export_path, self.page.export_path.parent) with
\* its blanks replaced: the path from the page's directory to the target.
RelPath(target) == <<"relpath", target>>

\* The elements an <img> or an attachment link can be, by the attributes
\* the lookup reads.
AssetElements ==
    [media_id : {None, "file1", "file9"},
     resource_id : {None, "att2", "att9"},
     container_id : {None, "2"}]

\* The handler is over: what it was called with, what it looked up, and
\* what it returned or raised.
Handled(handler, el, fetch, lookup, r) ==
    /\ handler_calls' = handler_calls + 1
    /\ last_call' =
           [handler |-> handler, el |-> el, fetch |-> fetch, lookup |-> lookup,
            kind |-> r.kind, value |-> r.value, exc |-> r.exc]
    /\ IF r.kind = "raise" THEN Raise(r.exc[1]) ELSE UNCHANGED batchVars

\* Converter.convert_attachment_link, as a function of what the remote
\* answers: the result, the fetch made and the cache afterwards.
attachment_link(el, pages, answer) ==
    LET fetch == IF FetchesContainer(el)
                 THEN HandlerFetch(ContainerKey(el), pages, answer)
                 ELSE NoFetch
        found == get_attachment_from_element(el, fetch)
    IN  [r |-> IF found.kind = "raise" THEN found
               ELSE IF found.value = EmptyStr THEN Raises(AttributeError)
               ELSE Returns(<<"link", found.value[4], RelPath(found.value)>>),
         fetch |-> fetch,
         lookup |-> NoFetch,
         pages |-> IF fetch = NoFetch THEN pages
                   ELSE CacheAfter(ContainerKey(el), pages, fetch),
         names |-> page_id_by_name]

\* Converter.convert_attachment_link called for an element of the body.
convert_attachment_link(el, answer) ==
    /\ pc = "export_markdown"
    /\ handler_calls < MaxHandlerCalls
    /\ \E c \in {attachment_link(el, linked_pages, answer)} :
           /\ Handled("convert_attachment_link", el, c.fetch, c.lookup, c.r)
           /\ linked_pages' = c.pages
    /\ UNCHANGED <<page_id_by_name, page_properties, pathVars, imgVars, lookupVars, spaceVars, attachVars>>

\* Converter.convert_img: the element's attachment if it names one, the
\* handling of its src otherwise.
convert_img_element(el, answer, src, response) ==
    /\ pc = "export_markdown"
    /\ \E fetch \in {IF FetchesContainer(el)
                     THEN HandlerFetch(ContainerKey(el), linked_pages, answer)
                     ELSE NoFetch} :
       \E r \in {get_attachment_from_element(el, fetch)} :
           IF r.kind = "return" /\ r.value = EmptyStr
           THEN convert_img(src, response)
           ELSE /\ handler_calls < MaxHandlerCalls
                /\ Handled("convert_img", el, fetch, NoFetch,
                           IF r.kind = "raise" THEN r
                           ELSE Returns(<<"img", RelPath(r.value)>>))
                /\ linked_pages' =
                       IF fetch = NoFetch THEN linked_pages
                       ELSE CacheAfter(ContainerKey(el), linked_pages, fetch)
                /\ UNCHANGED <<page_id_by_name, page_properties, pathVars,
                               imgVars, lookupVars, spaceVars, attachVars>>

\* ------------------------------------------------------------ convert_a
\* An href is the sequence of the pieces the patterns of convert_a tell
\* apart; a title is its words with "+" between them.
IsDigits(t) == t \in {"0", "1", "2", "3"}
IsKey(t) == t \in {"KEY"}
Hrefs ==
    {<<"/wiki/", "spaces/KEY", "/pages/", "2">>,
     <<"/pages/viewpage.action?pageId=", "2">>,
     <<"/display/", "KEY", "/", "My", "+", "Page">>,
     <<"/display/", "KEY", "/", "Title">>,
     <<"/display/", "KEY", "/", "Title", "/", "sub">>,
     <<"/display/", "KEY", "/", "My", "+", "Page", "/", "sub">>,
     <<"createpage.action?title=", "Title">>,
     <<"#", "Title">>,
     <<"https://example.com/", "Title">>}

PyNone == <<"NoneType", 0>>
NoMatch == <<"no match">>

\* re.search(r"/wiki/.+?/pages/(\d+)", href): group 1.
WikiPagesMatch(href) ==
    LET at == {j \in 3..(Len(href) - 1) :
                  /\ href[j] = "/pages/"
                  /\ IsDigits(href[j + 1])
                  /\ \E i \in 1..(j - 2) : href[i] = "/wiki/"}
    IN  IF at = {} THEN NoMatch
        ELSE <<href[(CHOOSE j \in at : \A k \in at : j <= k) + 1]>>

\* re.search(r"/pages/viewpage.action\?pageId=(\d+)", href): group 1.
ViewPageMatch(href) ==
    LET at == {j \in 1..(Len(href) - 1) :
                  href[j] = "/pages/viewpage.action?pageId=" /\ IsDigits(href[j + 1])}
    IN  IF at = {} THEN NoMatch
        ELSE <<href[(CHOOSE j \in at : \A k \in at : j <= k) + 1]>>

\* re.search(r"/display/(\w+)/([^/]+)(?:\+|$)", href): groups 1 and 2.  The
\* title runs up to the next "/" or the end; group 2 is all of it when the
\* href ends there, and otherwise its longest part that a "+" follows.
DisplayMatch(href) ==
    IF ~(/\ Len(href) >= 4
         /\ href[1] = "/display/" /\ IsKey(href[2]) /\ href[3] = "/"
         /\ href[4] # "/")
    THEN NoMatch
    ELSE LET run == CHOOSE e \in 4..Len(href) :
                        /\ \A k \in 4..e : href[k] # "/"
                        /\ (e = Len(href) \/ href[e + 1] = "/")
             ends == IF run = Len(href) THEN {run}
                     ELSE {g \in 4..(run - 1) : href[g + 1] = "+" /\ href[g] # "+"}
         IN  IF ends = {} THEN NoMatch
             ELSE <<href[2],
                    SubSeq(href, 4, CHOOSE g \in ends : \A k \in ends : k <= g)>>

\* match.group(2).replace("+", " ")
PageName(title) == [i \in 1..Len(title) |-> IF title[i] = "+" THEN " " ELSE title[i]]

Contains(href, piece) == \E i \in 1..Len(href) : href[i] = piece

\* What confluence.cql answers the title query with.
CqlAnswers == {<<"results", "2">>, <<"results", "">>, <<"raises", "HTTPError">>}

\* As if an exception of the query left the function.
get_page_id_by_space_and_name_Propagates(key, memo, cql) ==
    IF key \in DOMAIN memo THEN Returns(memo[key])
    ELSE IF cql[1] = "raises" THEN Raises(<<cql[2], 0>>)
    ELSE IF cql[2] # "" THEN Returns(PyInt(int(cql[2])))
    ELSE Returns(PyNone)

\* get_page_id_by_space_and_name under functools.lru_cache: the memoized
\* value if there is one; otherwise the id of the first result, and None
\* when there is no result or the query raises.
get_page_id_by_space_and_name(key, memo, cql) ==
    IF key \in DOMAIN memo THEN Returns(memo[key])
    ELSE IF cql[1] = "raises" THEN Returns(PyNone)
    ELSE IF cql[2] # "" THEN Returns(PyInt(int(cql[2])))
    ELSE Returns(PyNone)

\* lru_cache keeps what the function returned, None included.
Memoized(key, memo, r) ==
    IF r.kind = "return" /\ key \notin DOMAIN memo THEN (key :> r.value) @@ memo
    ELSE memo

\* Converter.convert_page_link(page_id, el)
convert_page_link(page_id, el, pages, answer) ==
    IF page_id[2] = 0
    THEN [r |-> Raises(<<"ValueError", 0>>), fetch |-> NoFetch, pages |-> pages]
    ELSE LET fetch == HandlerFetch(page_id, pages, answer)
         IN  [r |-> IF fetch # FetchedOk THEN Raises(fetch)
                    ELSE Returns(<<"link", el.text, RelPath(page_id)>>),
              fetch |-> fetch,
              pages |-> CacheAfter(page_id, pages, fetch)]

PageLink(page_id, el, pages, names, lookup, answer) ==
    LET c == convert_page_link(page_id, el, pages, answer)
    IN  [r |-> c.r, fetch |-> c.fetch, lookup |-> lookup, pages |-> c.pages,
         names |-> names]

Plain(r, pages, names, lookup) ==
    [r |-> r, fetch |-> NoFetch, lookup |-> lookup, pages |-> pages, names |-> names]

\* convert_a from its third test on: a link that is neither a user mention
\* nor a link to a page yet to be created.
convert_a_link(el, pages, names, cql, answer) ==
    IF /\ el.type = "page"
       /\ el.resource_id \notin {None, "", "null"}
    THEN PageLink(PyInt(int(el.resource_id)), el, pages, names, NoFetch, answer)
    ELSE IF el.type = "attachment"
    THEN attachment_link(el, pages, answer)
    ELSE IF WikiPagesMatch(el.href) # NoMatch
    THEN PageLink(PyInt(int(WikiPagesMatch(el.href)[1])), el, pages, names,
                  NoFetch, answer)
    ELSE IF ViewPageMatch(el.href) # NoMatch
    THEN PageLink(PyInt(int(ViewPageMatch(el.href)[1])), el, pages, names,
                  NoFetch, answer)
    ELSE IF DisplayMatch(el.href) # NoMatch
    THEN LET m == DisplayMatch(el.href)
             key == <<m[1], PageName(m[2])>>
             found == get_page_id_by_space_and_name(key, names, cql)
             memo == Memoized(key, names, found)
             lookup == <<"lookup",
                         IF found.kind = "raise" THEN PyNone ELSE found.value,
                         IF key \in DOMAIN names THEN "memoized" ELSE cql[1]>>
         IN  IF found.kind = "raise" THEN Plain(found, pages, names, lookup)
             ELSE IF found.value # PyNone /\ found.value[2] # 0
             THEN PageLink(found.value, el, pages, memo, lookup, answer)
             ELSE Plain(Returns(<<"link", el.text, el.href>>), pages, memo, lookup)
    ELSE IF el.href # <<>> /\ el.href[1] = "#"
    THEN Plain(Returns(<<"link", el.text, <<"#", <<"sanitize_key", el.text>>>>>>),
               pages, names, NoFetch)
    ELSE Plain(Returns(<<"markdownify", el.text, el.href>>), pages, names, NoFetch)

\* The <a> elements of a body, by the attributes convert_a reads.
Anchor(class, href, type, resource_id, media_id, container_id) ==
    [class |-> class, href |-> href, type |-> type, resource_id |-> resource_id,
     media_id |-> media_id, container_id |-> container_id, text |-> "label"]

HrefAnchors == {Anchor(None, h, None, None, None, None) : h \in Hrefs}
PageAnchors ==
    {Anchor(None, h, "page", id, None, None) :
         h \in {<<"/display/", "KEY", "/", "Title">>, <<"https://example.com/", "Title">>},
         id \in {None, "null", "0", "2"}}
AttachmentAnchors ==
    {Anchor(None, <<"https://example.com/", "Title">>, "attachment",
            e.resource_id, e.media_id, e.container_id) : e \in AssetElements}
OtherAnchors ==
    {Anchor("user-mention", <<"https://example.com/", "Title">>, None, None, None, None),
     Anchor("createlink", <<"/display/", "KEY", "/", "Title">>, None, None, None, None)}
Anchors == HrefAnchors \cup PageAnchors \cup AttachmentAnchors \cup OtherAnchors

\* BeautifulSoup(self.page.editor2).find("a", string=text): None, or an
\* anchor of the editor markup with the same text.
NoElement == Anchor(None, <<>>, None, None, None, None)
Fallbacks == {NoElement, Anchor(None, <<"/display/", "KEY", "/", "Title">>, None, None, None, None)}

\* Converter.convert_a, as a function of the element, of the anchor the
\* editor markup holds for its text, and of what the remote answers.
convert_a_result(el, fallback, pages, names, cql, answer) ==
    IF el.class = "user-mention"
    THEN Plain(Returns(<<"text", el.text>>), pages, names, NoFetch)
    ELSE IF Contains(el.href, "createpage.action?title=") \/ el.class = "createlink"
    THEN IF fallback # NoElement
         THEN convert_a_link(fallback, pages, names, cql, answer)
         ELSE Plain(Returns(<<"wikilink", el.text>>), pages, names, NoFetch)
    ELSE convert_a_link(el, pages, names, cql, answer)

\* Converter.convert_a called for an element of the body.
convert_a(el, fallback, cql, answer) ==
    /\ pc = "export_markdown"
    /\ handler_calls < MaxHandlerCalls
    /\ \E c \in {convert_a_result(el, fallback, linked_pages, page_id_by_name,
                                  cql, answer)} :
           /\ Handled("convert_a", el, c.fetch, c.lookup, c.r)
           /\ linked_pages' = c.pages
           /\ page_id_by_name' = c.names
    /\ UNCHANGED <<page_properties, pathVars, imgVars, lookupVars, spaceVars, attachVars>>

\* ---------------------------------------------------------- convert_div
Str(t) == <<"text", t>>

\* The export view of the page, by its <div> elements in document order:
\* the class of each and what tells two of a class apart.
TocDiv(n) == <<"toc-macro", n>>
JiraDiv(n) == <<"jira-table", n>>
BodyExports ==
    {<<>>, <<TocDiv(1)>>, <<TocDiv(1), TocDiv(2)>>, <<JiraDiv(1)>>,
     <<JiraDiv(1), JiraDiv(2)>>, <<JiraDiv(1), TocDiv(1)>>}

\* BeautifulSoup(body_export, "html.parser").find_all("div", {"class": class})
find_all(body_export, class) == SelectSeq(body_export, LAMBDA d : d[1] = class)

\* self.process_tag(tag, parent_tags): the conversion of that element.
process_tag(tag) == <<"process_tag", tag>>

\* As if the first match were used whenever there is one.
convert_toc_FirstMatch(el, body_export) ==
    LET tocs == find_all(body_export, "toc-macro")
    IN  IF Len(tocs) = 0 THEN Returns(Str(el.text))
        ELSE Returns(process_tag(tocs[1]))

\* Converter.convert_toc
convert_toc(el, body_export) ==
    LET tocs == find_all(body_export, "toc-macro")
    IN  IF Len(tocs) = 0 THEN Returns(Str(el.text))
        ELSE IF Len(tocs) > 1 THEN Returns(Str(el.text))
        ELSE Returns(process_tag(tocs[1]))

\* Converter.convert_jira_table
convert_jira_table(el, body_export) ==
    LET jira_tables == find_all(body_export, "jira-table")
    IN  IF Len(jira_tables) = 0 THEN Returns(Str(el.text))
        ELSE IF Len(jira_tables) > 1 THEN Returns(Str(el.text))
        ELSE Returns(process_tag(jira_tables[1]))

\* As if warning were labelled by its own name.
alert_type_map_WarningAsWarning ==
    ("info" :> "IMPORTANT") @@ ("panel" :> "NOTE") @@ ("tip" :> "TIP")
    @@ ("note" :> "WARNING") @@ ("warning" :> "WARNING")

alert_type_map ==
    ("info" :> "IMPORTANT") @@ ("panel" :> "NOTE") @@ ("tip" :> "TIP")
    @@ ("note" :> "WARNING") @@ ("warning" :> "CAUTION")

\* Converter.convert_alert: el["data-macro-name"] raises KeyError when the
\* element has no such attribute.
convert_alert(el) ==
    IF el.macro = None THEN Raises(<<"KeyError", 0>>)
    ELSE LET alert_type == IF el.macro \in DOMAIN alert_type_map
                           THEN alert_type_map[el.macro] ELSE "NOTE"
         IN  Returns(<<"\n> [!", alert_type, "]", <<"convert_blockquote", el.text>>>>)

macros_to_ignore == {"qc-read-and-understood-signature-box"}

get_attachments_by_title(attachments, title) ==
    SelectSeq(attachments, LAMBDA a : a[4] = title)

\* Converter.convert_drawio: el.diagram is the name the pattern
\* \|diagramName=(.+?)\| finds in the element, None when it finds none.
convert_drawio(el) ==
    IF el.diagram = None THEN Returns(Str(""))
    ELSE LET drawio_attachments ==
                 get_attachments_by_title(Attachments(ThisPage), el.diagram)
             preview_attachments ==
                 get_attachments_by_title(Attachments(ThisPage),
                                          IF el.diagram = "d" THEN "d.png" ELSE "x.png")
         IN  IF drawio_attachments = <<>> \/ preview_attachments = <<>>
             THEN Returns(<<"\n<!-- Drawio diagram ", el.diagram, " not found -->\n\n">>)
             ELSE Returns(<<"drawio", RelPath(preview_attachments[1]),
                            RelPath(drawio_attachments[1])>>)

\* Converter.convert_column_layout, and the default handling of a <div>.
super_convert_div(el) == <<"convert_div", el.text>>
convert_column_layout(el) ==
    IF el.cells < 2 THEN Returns(super_convert_div(el))
    ELSE Returns(<<"convert_table", el.cells>>)

\* Converter.convert_page_properties: the rows of two cells become
\* properties, by set_page_properties, when their value is not empty.
convert_page_properties(el, props) ==
    props \cup {<<"sanitize_key", row[1]>> : row \in {r \in el.rows : r[2] # ""}}

\* Converter.convert_div
convert_div_result(el, body_export) ==
    IF el.macro # None /\ el.macro \in macros_to_ignore THEN Returns(Str(""))
    ELSE IF el.macro \in {"panel", "info", "note", "tip", "warning"}
    THEN convert_alert(el)
    ELSE IF el.macro = "drawio" THEN convert_drawio(el)
    ELSE IF el.macro = "scroll-ignore"
    THEN Returns(<<"\n<!--", <<"convert_p", el.text>>, "-->\n">>)
    ELSE IF el.macro = "toc" THEN convert_toc(el, body_export)
    ELSE IF el.macro = "jira" THEN convert_jira_table(el, body_export)
    ELSE IF el.class = "columnLayout" THEN convert_column_layout(el)
    ELSE Returns(super_convert_div(el))

\* The <div> elements (and the <alert> elements) of a body, by what the
\* handlers read of them.
Div(macro, class, cells, rows, diagram) ==
    [macro |-> macro, class |-> class, cells |-> cells, rows |-> rows,
     diagram |-> diagram, text |-> "label"]
MacroNames ==
    {"info", "panel", "tip", "note", "warning", "details", "drawio",
     "scroll-ignore", "toc", "jira", "expand",
     "qc-read-and-understood-signature-box"}
Divs ==
    {Div(m, None, 0, {}, None) : m \in MacroNames \cup {None}}
    \cup {Div(None, "columnLayout", n, {}, None) : n \in {1, 2}}
    \cup {Div("details", None, 0, rows, None) :
              rows \in {{<<"Owner", "me">>}, {<<"Owner", "">>}}}
    \cup {Div("drawio", None, 0, {}, d) : d \in {"d", "x"}}
Alerts == {Div(m, None, 0, {}, None) : m \in {"warning", "expand", None}}

WithBody(el, body_export) == [body_export |-> body_export] @@ el

\* Converter.convert_div called for a <div> of the body.
convert_div(el, body_export) ==
    /\ pc = "export_markdown"
    /\ handler_calls < MaxHandlerCalls
    /\ Handled("convert_div", WithBody(el, body_export), NoFetch, NoFetch,
               convert_div_result(el, body_export))
    /\ page_properties' =
           IF el.macro = "details"
           THEN convert_page_properties(el, page_properties)
           ELSE page_properties
    /\ UNCHANGED <<page_id_by_name, linked_pages, pathVars, imgVars, lookupVars, spaceVars, attachVars>>

\* Converter.convert_alert called for an <alert> element of the body.
convert_alert_element(el) ==
    /\ pc = "export_markdown"
    /\ handler_calls < MaxHandlerCalls
    /\ Handled("convert_alert", el, NoFetch, NoFetch, convert_alert(el))
    /\ UNCHANGED <<page_id_by_name, linked_pages, page_properties, pathVars,
                   imgVars, lookupVars, spaceVars, attachVars>>

\* ----------------------------------------------------------- convert_li
\* What the library's convert_li gives for the item, in pieces: the bullet
\* followed by a blank is one piece wherever it occurs.
Bullet == "- "
ListItemMarkdowns ==
    {<<Bullet, "task", "\n">>, <<"  ", Bullet, "task", "\n">>,
     <<Bullet, "a ", Bullet, "b", "\n">>, <<"1. ", "task", "\n">>}

\* As if every occurrence were replaced.
ReplaceFirst_EveryOccurrence(md, old, new) ==
    [i \in 1..Len(md) |-> IF md[i] = old THEN new ELSE md[i]]

\* md.replace(old, new, 1)
ReplaceFirst(md, old, new) ==
    LET at == {i \in 1..Len(md) : md[i] = old}
    IN  IF at = {} THEN md
        ELSE [md EXCEPT ![CHOOSE i \in at : \A j \in at : i <= j] = new]

\* The <li> elements of a body: the task id, None when the element does not
\* have the attribute, and the list of its classes, NoClass when it has no
\* class attribute.
NoClass == <<>>
ListItems ==
    [task_id : {None, "", "7"}, class : {NoClass, <<"checked">>, <<"unchecked">>},
     md : ListItemMarkdowns]

has_attr(v) == v # None
has_class_attr(el) == el.class # NoClass

\* Converter.convert_li, given the library's conversion of the item.
convert_li_result(el) ==
    IF has_attr(el.task_id)
    THEN LET is_checked == has_class_attr(el) /\ "checked" \in Range(el.class)
         IN  Returns(ReplaceFirst(el.md, Bullet,
                                  IF is_checked THEN "- [x] " ELSE "- [ ] "))
    ELSE Returns(el.md)

\* Converter.convert_li called for an <li> of the body.
convert_li(el) ==
    /\ pc = "export_markdown"
    /\ handler_calls < MaxHandlerCalls
    /\ Handled("convert_li", el, NoFetch, NoFetch, convert_li_result(el))
    /\ UNCHANGED <<page_id_by_name, linked_pages, page_properties, pathVars,
                   imgVars, lookupVars, spaceVars, attachVars>>

\* The handlers are called while export_page(1, root) converts the page.
InitConv ==
    /\ markdown_style = "GFM"
    /\ InitCall
    /\ InitDefaultPaths
    /\ InitImg
    /\ InitRest

ConvSrcs == {<<"/", "img", ".png">>}
ConvResponses == {<<"ok", "image/png">>}

NextConv ==
    \/ \E path \in Roots : export_page(ThisPage, path)
    \/ PageFromId
    \/ \E el \in AssetElements, answer \in FetchOutcomes :
           convert_attachment_link(el, answer)
    \/ \E el \in AssetElements, answer \in FetchOutcomes,
          src \in ConvSrcs, response \in ConvResponses :
           convert_img_element(el, answer, src, response)
    \/ \E el \in Anchors, fallback \in Fallbacks, cql \in CqlAnswers,
          answer \in FetchOutcomes :
           convert_a(el, fallback, cql, answer)
    \/ ExportMarkdown
    \/ ExportAttachments

SpecConv == InitConv /\ [][NextConv]_vars

\* The same for the handlers of the macros and of the list items.
NextMacro ==
    \/ \E path \in Roots : export_page(ThisPage, path)
    \/ PageFromId
    \/ \E el \in Divs, body_export \in BodyExports : convert_div(el, body_export)
    \/ \E el \in Alerts : convert_alert_element(el)
    \/ \E el \in ListItems : convert_li(el)
    \/ ExportMarkdown
    \/ ExportAttachments

SpecMacro == InitConv /\ [][NextMacro]_vars

\* -------------------------------------------------------- remote lookups
\* Space.from_key and Page.from_id under functools.lru_cache(maxsize): the
\* cache is the sequence of its keys, the least recently used first.  A hit
\* moves the key to the end; a miss calls the function and, when it
\* returned, stores the key, dropping the first key of a full cache; a call
\* that raised stores nothing.
lru_cache(cache, key, maxsize, answer) ==
    IF key \in Range(cache)
    THEN [hit |-> TRUE, returned |-> TRUE,
          cache |-> Append(SelectSeq(cache, LAMBDA k : k # key), key)]
    ELSE IF answer # FetchedOk
    THEN [hit |-> FALSE, returned |-> FALSE, cache |-> cache]
    ELSE [hit |-> FALSE, returned |-> TRUE,
          cache |-> IF Len(cache) >= maxsize THEN Append(Tail(cache), key)
                    ELSE Append(cache, key)]

\* The space keys a lookup can name: the first key, or a key never fetched
\* before (space keys are alike: the new ones are taken in order).
SpaceKeys == {1} \cup {Len(space_fetches) + 1}
\* The space every page of the site is in.
PageSpaceKey == 1
\* The fetches of a space the remote answered, one more when this one did.
CountSpaceFetch(fetches, key, c) ==
    IF c.hit \/ ~c.returned THEN fetches
    ELSE IF key > Len(fetches) THEN Append(fetches, 1)
    ELSE [fetches EXCEPT ![key] = @ + 1]

\* Space.from_key(space_key)
Space_from_key(key, answer) ==
    /\ key <= MaxSpaceKeys
    /\ \E c \in {lru_cache(space_lru, key, SpaceCacheMaxsize, answer)} :
           /\ space_lru' = c.cache
           /\ space_fetches' = CountSpaceFetch(space_fetches, key, c)
    /\ UNCHANGED <<page_lru, page_fetches, last_descendants>>
    /\ UNCHANGED <<batchVars, pathVars, imgVars, handlerVars, spaceVars, attachVars>>

\* Page.from_id(page_id): a miss fetches the page and, in Page.from_json,
\* looks its space up; the page is stored when both returned.
Page_from_id_call(key, answer, space_answer) ==
    /\ IF key \in Range(page_lru)
       THEN /\ page_lru' = lru_cache(page_lru, key, PageCacheMaxsize, answer).cache
            /\ UNCHANGED <<page_fetches, space_lru, space_fetches>>
       ELSE IF answer # FetchedOk
       THEN UNCHANGED <<page_lru, page_fetches, space_lru, space_fetches>>
       ELSE \E s \in {lru_cache(space_lru, PageSpaceKey, SpaceCacheMaxsize,
                                space_answer)} :
                /\ space_lru' = s.cache
                /\ space_fetches' = CountSpaceFetch(space_fetches, PageSpaceKey, s)
                /\ page_fetches' =
                       IF s.returned THEN [page_fetches EXCEPT ![key] = @ + 1]
                       ELSE page_fetches
                /\ page_lru' =
                       IF s.returned
                       THEN lru_cache(page_lru, key, PageCacheMaxsize, answer).cache
                       ELSE page_lru
    /\ UNCHANGED last_descendants
    /\ UNCHANGED <<batchVars, pathVars, imgVars, handlerVars, spaceVars, attachVars>>

\* What confluence.get answers the search with: the results, an HTTPError
\* with the status of the response, or an error of the connection.
SearchAnswers ==
    {<<"ok", 200>>, <<"HTTPError", 404>>, <<"HTTPError", 403>>, <<"HTTPError", 500>>,
     <<"ConnectionError", 0>>}

\* Page.descendants, given what the search answered.
descendants(page_key, answer) ==
    IF answer[1] = "ok" THEN Returns(<<"descendants", page_key>>)
    ELSE IF answer[1] = "HTTPError" /\ answer[2] = 404 THEN Raises(<<"ApiError", 404>>)
    ELSE Raises(answer)

\* page.descendants read of a page that Page.from_id returned.
Page_descendants(key, answer) ==
    /\ key \in Range(page_lru)
    /\ \E r \in {descendants(key, answer)} :
           last_descendants' =
               [page |-> key, answer |-> answer, kind |-> r.kind, exc |-> r.exc]
    /\ UNCHANGED <<space_lru, space_fetches, page_lru, page_fetches>>
    /\ UNCHANGED <<batchVars, pathVars, imgVars, handlerVars, spaceVars, attachVars>>

\* The two answers a fetch is told apart by here: it returns, or it raises.
LookupAnswers == {FetchedOk, <<"HTTPError", 500>>}

NextLookups ==
    \/ \E key \in SpaceKeys, answer \in LookupAnswers : Space_from_key(key, answer)
    \/ \E key \in {PyInt(1), PyStr(1)}, answer \in LookupAnswers,
          space_answer \in LookupAnswers :
           Page_from_id_call(key, answer, space_answer)

SpecLookups == Init /\ [][NextLookups]_vars

NextDescendants ==
    \/ \E key \in PageKeys, answer \in LookupAnswers, space_answer \in LookupAnswers :
           Page_from_id_call(key, answer, space_answer)
    \/ \E key \in PageKeys, answer \in SearchAnswers : Page_descendants(key, answer)

SpecDescendants == Init /\ [][NextDescendants]_vars

\* ---------------------------------------------------------- Space.export
\* A space whose homepage is None is held with the homepage 0: no page has
\* that id.
NoHomepage == 0
Spaces == {TheSpace, [key |-> "EMPTY", name |-> "Empty", homepage |-> NoHomepage]}

NoDuplicates(ids) == \A i, j \in 1..Len(ids) : ids[i] = ids[j] => i = j

\* What the remote answers the enumeration of a space's pages with: the
\* pages, each once, or an error.
PageEnumerations ==
    {<<"ok", s>> : s \in {t \in SeqsUpTo(PageNumbers, MaxLen) : NoDuplicates(t)}}
    \cup {<<"HTTPError", <<>>>>}

\* Space.pages: nothing is asked of the remote for a space without homepage;
\* otherwise every id the remote gives, as an int.
Space_pages(space, answer) ==
    IF space.homepage = NoHomepage
    THEN [kind |-> "return", value |-> <<>>, exc |-> NoExc, enumerated |-> FALSE]
    ELSE IF answer[1] = "ok"
    THEN [kind |-> "return", value |-> [i \in 1..Len(answer[2]) |-> PyInt(answer[2][i])],
          exc |-> NoExc, enumerated |-> TRUE]
    ELSE [kind |-> "raise", value |-> <<>>, exc |-> <<answer[1], 0>>,
          enumerated |-> TRUE]

\* for page_id in all_pages: f.write(f"{page_id}\n")
WritePages(all_pages) ==
    [exists |-> TRUE, lines |-> [i \in 1..Len(all_pages) |-> FormatLine(all_pages[i])]]

\* As if the lines read were turned into ints.
ReadPages_AsInts(lines) == [i \in 1..Len(lines) |-> PyInt(lines[i])]

\* [line.strip() for line in f if line.strip()]: every line the program
\* wrote holds an id, and is read as a str.
ReadPages(lines) == [i \in 1..Len(lines) |-> PyStr(lines[i])]

\* Space.export up to its call of export_pages: the list it passes, and
\* pages.txt afterwards.
CachedPages(space, file, readable, answer) ==
    IF file.exists /\ readable
    THEN [kind |-> "return", all_pages |-> ReadPages(file.lines), exc |-> NoExc,
          enumerated |-> FALSE, file |-> file]
    ELSE LET pages == Space_pages(space, answer)
         IN  [kind |-> pages.kind, all_pages |-> pages.value, exc |-> pages.exc,
              enumerated |-> pages.enumerated,
              file |-> IF pages.kind = "return" THEN WritePages(pages.value)
                       ELSE file]

\* Space.export(export_path): an exception of the enumeration leaves it;
\* otherwise it goes on as export_pages(all_pages, export_path).
Space_export(space, path, readable, answer) ==
    /\ pc = "idle"
    /\ runs < MaxRuns
    /\ \E c \in {CachedPages(space, pages_file[path], readable, answer)} :
           /\ pages_file' = [pages_file EXCEPT ![path] = c.file]
           /\ last_space_export' =
                  [root |-> path, space |-> space.key,
                   homepage |-> space.homepage,
                   existed |-> pages_file[path].exists,
                   readable |-> readable,
                   before |-> pages_file[path].lines,
                   enumerated |-> c.enumerated,
                   answer |-> IF c.enumerated THEN answer ELSE <<"none", <<>>>>,
                   kind |-> c.kind, passed |-> c.all_pages]
           /\ IF c.kind = "raise"
              THEN /\ pc' = "crashed"
                   /\ outcome' = c.exc[1]
                   /\ runs' = runs + 1
                   /\ UNCHANGED <<markdown_style, output_root_path,
                                  processed_pages_file, mode, returned, raised,
                                  callVars>>
              ELSE export_pages_starts(c.all_pages, path)
    /\ UNCHANGED <<pathVars, imgVars, handlerVars, lookupVars, attachVars>>

NextSpace ==
    \/ \E space \in Spaces, path \in Roots, readable \in BOOLEAN,
          answer \in PageEnumerations :
           Space_export(space, path, readable, answer)
    \/ LoopNext
    \/ LoopExit
    \/ PageFromId
    \/ ExportMarkdown
    \/ ExportAttachments
    \/ AppendProcessed

SpecSpace == Init /\ [][NextSpace]_vars

\* A second space of the site, with its own homepage.
OtherSpace == [key |-> "OTHER", name |-> "Other Space", homepage |-> 2]
SiteSpaces == {TheSpace, OtherSpace}

\* The pages of the site by space: the odd ids are pages of the one space,
\* the even ids pages of the other (each homepage is a page of its space).
PagesOfSpace(key) ==
    {n \in PageNumbers :
        \E space \in SiteSpaces : space.key = key /\ n % 2 = space.homepage % 2}

\* get_all_pages_from_space_as_generator(self.key): pages of that space,
\* each once, or an error.
SpaceEnumerations(space) ==
    {a \in PageEnumerations : Range(a[2]) \subseteq PagesOfSpace(space.key)}

\* Spaces of one site exported one after the other into the same roots.
NextSpaces ==
    \/ \E space \in SiteSpaces, path \in Roots, readable \in BOOLEAN :
          \E answer \in SpaceEnumerations(space) :
              Space_export(space, path, readable, answer)
    \/ LoopNext
    \/ LoopExit
    \/ PageFromId
    \/ ExportMarkdown
    \/ ExportAttachments
    \/ AppendProcessed

SpecSpaces == Init /\ [][NextSpaces]_vars

\* ------------------------------------------------- Page.export_attachments
\* An attachment of a page: its file id and title, its extension (from the
\* comment and the media type), and what the page's bodies hold of it.
AttachmentOf(file_id, title, extension, in_body, in_body_export, id_in_body) ==
    [file_id |-> file_id, title |-> title, extension |-> extension,
     diagram_in_body |-> in_body,
     title_in_body_export |-> in_body_export,
     file_id_in_body |-> id_in_body]

\* self.attachments of the page with the given id: a draw.io diagram the
\* body names and an image the body holds the file id of; for the other
\* pages a draw.io preview the export body shows and a file nothing refers to.
PageAttachments(page_id) ==
    IF Text(page_id) = 1
    THEN <<AttachmentOf("f1", "diagram", ".drawio", TRUE, FALSE, FALSE),
           AttachmentOf("f2", "photo", ".png", FALSE, FALSE, TRUE)>>
    ELSE <<AttachmentOf("f3", "diagram.png", ".drawio.png", FALSE, TRUE, FALSE),
           AttachmentOf("f4", "unused", ".png", FALSE, FALSE, FALSE)>>

\* The three conditions of the loop, any of which exports the attachment.
IsExported(att) ==
    \/ att.extension = ".drawio" /\ att.diagram_in_body
    \/ att.extension = ".drawio.png" /\ att.title_in_body_export
    \/ att.file_id_in_body

\* Path(export_path) / self.export_path, with the path template resolved:
\* the file name of the attachment under the root.
Filepath(att) == <<att.file_id, att.extension>>

\* What the GET of the download link can give: the content, an error status
\* (raise_for_status raises requests.HTTPError), or no connection.
DownloadResponses ==
    {<<"ok", "v1">>, <<"ok", "v2">>, <<"HTTPError", "">>, <<"ConnectionError", "">>}

NoContent == ""
\* The content of the file at the path, NoContent if there is none.
ContentAt(fs, root, name) ==
    IF \E f \in fs : f[1] = root /\ f[2] = name
    THEN (CHOOSE f \in fs : f[1] = root /\ f[2] = name)[3]
    ELSE NoContent

\* save_file(filepath, response.content)
WriteAttachment(fs, root, name, content) ==
    {f \in fs : ~(f[1] = root /\ f[2] = name)} \cup {<<root, name, content>>}

\* As if the file were downloaded whether it is there or not.
Attachment_export_Overwrites(fs, root, att, response) ==
    IF response[1] = "HTTPError"
    THEN [files |-> fs, get |-> TRUE, wrote |-> FALSE, kind |-> "return",
          exc |-> NoExc]
    ELSE IF response[1] # "ok"
    THEN [files |-> fs, get |-> TRUE, wrote |-> FALSE, kind |-> "raise",
          exc |-> <<response[1], 0>>]
    ELSE [files |-> WriteAttachment(fs, root, Filepath(att), response[2]),
          get |-> TRUE, wrote |-> TRUE, kind |-> "return", exc |-> NoExc]

\* Attachment.export(export_path): nothing to do when the file exists; an
\* HTTPError of the download is printed and swallowed, any other exception
\* leaves the method; the content is saved otherwise.
Attachment_export(fs, root, att, response) ==
    IF ContentAt(fs, root, Filepath(att)) # NoContent
    THEN [files |-> fs, get |-> FALSE, wrote |-> FALSE, kind |-> "return",
          exc |-> NoExc]
    ELSE IF response[1] = "HTTPError"
    THEN [files |-> fs, get |-> TRUE, wrote |-> FALSE, kind |-> "return",
          exc |-> NoExc]
    ELSE IF response[1] # "ok"
    THEN [files |-> fs, get |-> TRUE, wrote |-> FALSE, kind |-> "raise",
          exc |-> <<response[1], 0>>]
    ELSE [files |-> WriteAttachment(fs, root, Filepath(att), response[2]),
          get |-> TRUE, wrote |-> TRUE, kind |-> "return", exc |-> NoExc]

\* One turn of the loop of export_attachments: the next attachment of the
\* page is exported if the body refers to it, and passed over otherwise.
export_attachments_next(response) ==
    /\ pc = "export_attachments"
    /\ att_idx < Len(PageAttachments(CurrentPage))
    /\ LET att == PageAttachments(CurrentPage)[att_idx + 1]
           r == IF IsExported(att)
                THEN Attachment_export(attachment_files, output_path, att, response)
                ELSE [files |-> attachment_files, get |-> FALSE, wrote |-> FALSE,
                      kind |-> "return", exc |-> NoExc]
           entry == [att |-> att, root |-> output_path, run |-> runs, pos |-> idx,
                     exported |-> IsExported(att),
                     before |-> ContentAt(attachment_files, output_path, Filepath(att)),
                     after |-> ContentAt(r.files, output_path, Filepath(att)),
                     get |-> r.get,
                     response |-> IF r.get THEN response ELSE NoResponse,
                     wrote |-> r.wrote, kind |-> r.kind]
       IN  /\ attachment_files' = r.files
           /\ att_log' = IF att_idx = 0 THEN <<entry>> ELSE Append(att_log, entry)
           /\ IF r.kind = "raise"
              THEN /\ att_idx' = 0
                   /\ Raise(r.exc[1])
              ELSE /\ att_idx' = att_idx + 1
                   /\ UNCHANGED batchVars
    /\ UNCHANGED <<pathVars, imgVars, handlerVars, lookupVars, spaceVars,
                   markdown_log>>

\* The loop is exhausted: export_attachments returns, and export_page.
export_attachments_returns ==
    /\ pc = "export_attachments"
    /\ att_idx = Len(PageAttachments(CurrentPage))
    /\ att_idx' = 0
    /\ export_page_returns
    /\ UNCHANGED <<pathVars, imgVars, handlerVars, lookupVars, spaceVars,
                   attachment_files, att_log, markdown_log>>

NextAttach ==
    \/ \E ids \in RootLists, path \in Roots : export_pages(ids, path)
    \/ \E n \in PageNumbers, path \in Roots : export_page(PyInt(n), path)
    \/ LoopNext
    \/ LoopExit
    \/ PageFromId
    \/ ExportMarkdown
    \/ \E response \in DownloadResponses : export_attachments_next(response)
    \/ export_attachments_returns
    \/ AppendProcessed

SpecAttach == Init /\ [][NextAttach]_vars

\* -------------------------------------------------------------- Page.export
\* self.export_markdown(export_path), the first step of Page.export, with
\* how it ended kept.
Page_export_markdown ==
    /\ pc = "export_markdown"
    /\ \/ /\ export_markdown_raises
          /\ markdown_log' = [run |-> runs, pos |-> idx, kind |-> "raise"]
       \/ /\ export_markdown_returns
          /\ markdown_log' = [run |-> runs, pos |-> idx, kind |-> "return"]
    /\ UNCHANGED <<pathVars, imgVars, handlerVars, lookupVars, spaceVars,
                   attachment_files, att_idx, att_log>>

\* The process is killed while a call is in progress: the files stay, the
\* loops are gone.
Terminate ==
    /\ pc \notin {"idle", "crashed"}
    /\ CallEnds("killed")
    /\ att_idx' = 0
    /\ UNCHANGED <<markdown_style, output_root_path, processed_pages_file, runs,
                   returned, raised>>
    /\ UNCHANGED <<pathVars, imgVars, handlerVars, lookupVars, spaceVars,
                   attachment_files, att_log, markdown_log>>

\* Ids as ints and ids as the strs of pages.txt, one of them twice.
StepLists == RootLists \cup {<<PyStr(1), PyStr(1)>>}

NextSteps ==
    \/ \E ids \in StepLists, path \in Roots : export_pages(ids, path)
    \/ LoopNext
    \/ LoopExit
    \/ PageFromId
    \/ Page_export_markdown
    \/ \E response \in DownloadResponses : export_attachments_next(response)
    \/ export_attachments_returns
    \/ AppendProcessed
    \/ Terminate

SpecSteps == Init /\ [][NextSteps]_vars

\* ================================================================ claims
IntIds(ids) == \A i \in 1..Len(ids) : ids[i][1] = "int"
StrIds(ids) == \A i \in 1..Len(ids) : ids[i][1] = "str"
\* The id is a line of the log as the run read it.
Logged(x) == PyStr(Text(x)) \in processed_pages

\* C1 (as claimed): in a run of export_pages over integer ids, the pages to
\* process are the input ids that are not in the log the run read, and
\* export_page is called for no id that is in it.
C1_RerunExportsOnlyUnloggedIds ==
    (mode = "batch" /\ IntIds(page_ids)) =>
        /\ pages_to_process = SelectSeq(page_ids, LAMBDA x : ~Logged(x))
        /\ \A i \in 1..Len(attempted) : ~Logged(attempted[i])

C3_BatchFailureIsolated ==
    mode = "batch" =>
        /\ pc # "crashed"
        /\ outcome = "none"
        /\ attempted = SubSeq(pages_to_process, 1, idx)
        /\ (pc = "loop" /\ idx < Len(pages_to_process)) =>
               (ENABLED LoopNext /\ ~ENABLED LoopExit)
        /\ (pc = "loop" /\ idx = Len(pages_to_process)) =>
               attempted = pages_to_process

\* C3's case: the export of a page raised something other than an HTTP error
\* (the ValueError of the style), and a page after it has been attempted in the
\* same run.
C3_Witness ==
    /\ mode = "batch"
    /\ style_error_at # 0
    /\ style_error_at \in raised_run
    /\ style_error_at < idx
    /\ \E r \in Roots : \E t \in PageNumbers : <<r, t>> \in raised \ returned

\* C4 (as claimed): once the invalid style raised its error in a run, no
\* further page is processed in that run.
C4_InvalidStyleAbortsRun ==
    style_error_at # 0 => Len(attempted) = style_error_at

Forbidden == <<"HTTPError", 403>>

\* C5: every _get_safe_ancestor_title call of an export_path evaluation
\* returned "N/A" when the fetch of the ancestor raised an HTTP error with
\* status 403, returned the page's title when the fetch gave the page, and
\* raised the fetch's own exception in every other case; and an exception it
\* raised is the one the evaluation ended with.
C5_SafeAncestorTitle ==
    /\ \A i \in 1..Len(title_calls) :
           LET c == title_calls[i]
           IN  /\ c.fetch = Forbidden => (c.kind = "return" /\ c.value = "N/A")
               /\ c.fetch = FetchedOk =>
                      (c.kind = "return" /\ c.value = RemoteTitle(c.ancestor))
               /\ c.fetch \notin {Forbidden, FetchedOk} =>
                      (c.kind = "raise" /\ c.exc = c.fetch)
    /\ \A i \in 1..Len(title_calls) :
           title_calls[i].kind = "raise" =>
               (path_last.kind = "raise" /\ path_last.exc = title_calls[i].fetch)

\* C5's case: the attachment's path was evaluated; its first ancestor was
\* forbidden and gave "N/A", the fetch of its second raised an HTTP error
\* with another status, which reached the caller.
C5_Witness ==
    /\ path_last.entity = "attachment"
    /\ Len(title_calls) = 2
    /\ title_calls[1].fetch = Forbidden
    /\ title_calls[1].value = "N/A"
    /\ title_calls[2].fetch = <<"HTTPError", 500>>
    /\ path_last.exc = <<"HTTPError", 500>>

\* C6 (as claimed): a path computed for an entity is the path that was
\* computed for it the first time, whatever was looked up in between.
C6_ExportPathDeterministic ==
    path_last.kind = "path" => path_last.path = first_path[path_last.entity]

\* The template the last evaluation used.
LastTemplate == IF path_last.entity = "page" THEN page_path ELSE attachment_path

\* The template is made of placeholders {name} and other text without "$"
\* and without braces.
PlainTemplate(t) ==
    \A i \in 1..Len(t) :
        /\ t[i] # Ch("$")
        /\ t[i] = Ch("{") =>
               (i + 2 <= Len(t) /\ IsWord(t[i + 1]) /\ t[i + 2] = Ch("}"))
        /\ t[i] = Ch("}") =>
               (i > 2 /\ IsWord(t[i - 1]) /\ t[i - 2] = Ch("{"))

HasUnknownPlaceholder(t, mapping) ==
    \E i \in 1..Len(t) : t[i] = Ch("{") /\ t[i + 1][2] \notin DOMAIN mapping

RECURSIVE Verbatim(_, _, _)
\* The template with every known placeholder replaced by its value and every
\* other text, an unknown placeholder too, as it is written.
Verbatim(t, i, mapping) ==
    IF i > Len(t) THEN <<>>
    ELSE IF t[i] = Ch("{") /\ t[i + 1][2] \in DOMAIN mapping
    THEN mapping[t[i + 1][2]] \o Verbatim(t, i + 3, mapping)
    ELSE <<t[i]>> \o Verbatim(t, i + 1, mapping)

\* C7 (as claimed): the path computed from a template of placeholders, one of
\* them unknown, is the template with its known placeholders replaced by their
\* values and its unknown placeholders left as they are written.
C7_UnknownPlaceholderVerbatim ==
    (/\ path_last.kind = "path"
     /\ PlainTemplate(LastTemplate)
     /\ HasUnknownPlaceholder(LastTemplate, template_vars))
        => path_last.path = Path(Verbatim(LastTemplate, 1, template_vars))

IsDataUri(src) == src # <<>> /\ src[1] = "data:"
IsBase64Uri(src) == IsDataUri(src) /\ src[3] = ";base64,"
IsUrlSrc(src) == src # <<>> /\ src[1] # "data:"
\* The payload of a data: URI: all that follows the comma.
Payload(src) == SubSeq(src, 4, Len(src))

\* C8 (as claimed): a base64 data: URI converted again under a root wrote
\* nothing the second time and refers to the one file every conversion of it
\* referred to, which exists; and two base64 data: URIs with different
\* payloads converted under a root refer to two distinct files that exist.
C8_Base64AssetDedup ==
    /\ (IsBase64Uri(last_img.src) /\ last_img.again) =>
           /\ ~last_img.wrote
           /\ last_img.md
           /\ <<last_img.root, last_img.file>> \in files
           /\ \A t \in referenced :
                  (t[1] = last_img.root /\ t[2] = last_img.src) => t[3] = last_img.file
    /\ \A a \in converted, b \in converted :
           (/\ a[1] = b[1]
            /\ IsBase64Uri(a[2]) /\ IsBase64Uri(b[2])
            /\ Payload(a[2]) # Payload(b[2]))
               => \E fa \in files, fb \in files :
                      /\ fa # fb
                      /\ fa[1] = a[1] /\ <<a[1], a[2], fa[2]>> \in referenced
                      /\ fb[1] = b[1] /\ <<b[1], b[2], fb[2]>> \in referenced

\* A convert_img call is made for a URL.
UrlConversion == conversions' = conversions + 1 /\ IsUrlSrc(last_img'.src)

\* C9: when a URL is converted and the root's assets directory holds a file
\* named by the URL's hash, with whatever extension, no GET is issued and the
\* markup refers to a file of that name that was there; and a URL whose
\* download was saved under the root is not fetched again.
C9_UrlAssetDedup ==
    [][UrlConversion =>
          /\ (\E f \in files :
                  f[1] = last_img'.root /\ f[2][1] = Md5(last_img'.src)) =>
                 /\ ~last_img'.get
                 /\ last_img'.md
                 /\ last_img'.file[1] = Md5(last_img'.src)
                 /\ <<last_img'.root, last_img'.file>> \in files
                 /\ files' = files
          /\ <<last_img'.root, last_img'.src>> \in fetched_ok => ~last_img'.get
      ]_vars

\* C9's case: a URL whose download was saved before is converted again under
\* the same root, without a GET, and the markup refers to the saved file,
\* whose extension is not ".png".
C9_Witness ==
    /\ IsUrlSrc(last_img.src)
    /\ last_img.again
    /\ <<last_img.root, last_img.src>> \in fetched_ok
    /\ ~last_img.get
    /\ last_img.md
    /\ last_img.file[2] # ".png"
    /\ <<last_img.root, last_img.file>> \in files

\* C10 (as claimed): a GET for a URL that was answered with an HTML content
\* type wrote no file, and the conversion returned the empty string.
C10_HtmlResponseRejected ==
    (/\ IsUrlSrc(last_img.src)
     /\ last_img.get
     /\ last_img.response[1] = "ok"
     /\ last_img.response[2] \in {"text/html", "text/html; charset=utf-8"})
        => (~last_img.wrote /\ ~last_img.md)

\* C17: in a run of export_pages the export_page calls made so far are the
\* first idx elements of the filtered input list (the input ids, in input
\* order and with their repetitions, that are not in the set read from the
\* log): one call per loop position, none for a position behind the loop,
\* whether the call of that position raised or returned.
C17_AttemptsAreFilteredInputInOrder ==
    mode = "batch" =>
        /\ Len(pages_to_process) =
               Cardinality({i \in 1..Len(page_ids) : page_ids[i] \notin processed_pages})
        /\ \A i \in 1..Len(pages_to_process) :
               \E j \in i..Len(page_ids) :
                   /\ page_ids[j] = pages_to_process[i]
                   /\ Cardinality({k \in 1..j : page_ids[k] \notin processed_pages}) = i
        /\ idx \in 0..Len(pages_to_process)
        /\ Len(attempted) = idx
        /\ \A i \in 1..idx : attempted[i] = pages_to_process[i]
        /\ raised_run \subseteq 1..idx

\* C17's case: the input names the same page twice, the call for the first
\* occurrence raised, and the loop has made the call for the second.
C17_Witness ==
    /\ mode = "batch"
    /\ Len(page_ids) = 2 /\ page_ids[1] = page_ids[2]
    /\ idx = 2
    /\ 1 \in raised_run
    /\ attempted = page_ids

\* The element names an attachment that is not in the list searched: by its
\* file id in the page's own list, or by its link id in the list of the
\* container page, which was fetched.
NamesMissingAttachment(c) ==
    \/ /\ Truthy(c.el.media_id)
       /\ \A i \in 1..Len(Attachments(ThisPage)) :
              Attachments(ThisPage)[i][3] # c.el.media_id
    \/ /\ FetchesContainer(c.el)
       /\ c.fetch = FetchedOk
       /\ \A i \in 1..Len(Attachments(ContainerKey(c.el))) :
              Attachments(ContainerKey(c.el))[i][2] # c.el.resource_id

\* C11 (as claimed): when convert_img or convert_attachment_link is called
\* for an element naming an attachment that is not in the list, the handler
\* returns the empty text and raises nothing.
C11_MissingAssetYieldsEmpty ==
    (/\ last_call.handler \in {"convert_img", "convert_attachment_link"}
     /\ NamesMissingAttachment(last_call))
        => (last_call.kind = "return" /\ last_call.value = EmptyStr)

\* convert_a looked the element's own /display/{space}/{title} href up.
LooksTitleUp(c) ==
    /\ c.handler = "convert_a"
    /\ c.el.class = None
    /\ DisplayMatch(c.el.href) # NoMatch
    /\ c.lookup[1] = "lookup"

\* C12: when convert_a looks a /display/{space}/{title} href up and the
\* lookup gives no page (no result, the query raised, or that was memoized),
\* it fetches nothing and returns the link whose target is the href as it
\* was; when the lookup gives a page id, the outcome is convert_page_link's
\* for that id: the link to the page's path, or the exception of its fetch.
C12_UnresolvedDisplayLinkKeepsHref ==
    LooksTitleUp(last_call) =>
        IF last_call.lookup[2] = PyNone
        THEN /\ last_call.kind = "return"
             /\ last_call.value = <<"link", last_call.el.text, last_call.el.href>>
             /\ last_call.fetch = NoFetch
        ELSE /\ last_call.fetch # NoFetch
             /\ IF last_call.fetch = FetchedOk
                THEN /\ last_call.kind = "return"
                     /\ last_call.value =
                            <<"link", last_call.el.text, RelPath(last_call.lookup[2])>>
                ELSE last_call.kind = "raise" /\ last_call.exc = last_call.fetch

\* C12's case: the title query raised, and convert_a returned the link to
\* the href, a title of two words.
C12_Witness ==
    /\ LooksTitleUp(last_call)
    /\ last_call.lookup[3] = "raises"
    /\ last_call.el.href = <<"/display/", "KEY", "/", "My", "+", "Page">>
    /\ last_call.kind = "return"
    /\ <<"KEY", <<"My", " ", "Page">>>> \in DOMAIN page_id_by_name

\* convert_a took the page id of the link from its attributes or its href,
\* and the fetch of that page failed.
PageIdLinkNotFetched(c) ==
    /\ c.handler = "convert_a"
    /\ c.el.class = None
    /\ ~Contains(c.el.href, "createpage.action?title=")
    /\ c.el.type # "attachment"
    /\ c.lookup = NoFetch
    /\ c.fetch \notin {NoFetch, FetchedOk}

\* C13 (as claimed): when the page of a page-id link cannot be fetched,
\* convert_a raises nothing and returns the link to the href as it was.
C13_UnfetchablePageLinkKeepsTarget ==
    PageIdLinkNotFetched(last_call) =>
        /\ last_call.kind = "return"
        /\ last_call.value = <<"link", last_call.el.text, last_call.el.href>>

AlertMacros == {"info", "panel", "tip", "note", "warning"}
AlertLabel(macro) ==
    CASE macro = "info" -> "IMPORTANT"
      [] macro = "panel" -> "NOTE"
      [] macro = "tip" -> "TIP"
      [] macro = "note" -> "WARNING"
      [] macro = "warning" -> "CAUTION"
      [] OTHER -> "NOTE"
AlertMarkdown(label, text) == <<"\n> [!", label, "]", <<"convert_blockquote", text>>>>

\* C14: a <div> whose macro name is info, panel, tip, note or warning converts
\* to the blockquote of its text prefixed with [!IMPORTANT], [!NOTE], [!TIP],
\* [!WARNING], [!CAUTION] respectively, and convert_alert called for an
\* element with any other macro name gives the prefix [!NOTE].
C14_AlertLabels ==
    /\ (last_call.handler = "convert_div" /\ last_call.el.macro \in AlertMacros) =>
           /\ last_call.kind = "return"
           /\ last_call.value =
                  AlertMarkdown(AlertLabel(last_call.el.macro), last_call.el.text)
    /\ (/\ last_call.handler = "convert_alert"
        /\ last_call.el.macro \notin AlertMacros \cup {None}) =>
           /\ last_call.kind = "return"
           /\ last_call.value = AlertMarkdown("NOTE", last_call.el.text)

\* C14's case: a <div> of the warning macro was converted, to [!CAUTION].
C14_Witness ==
    /\ last_call.handler = "convert_div"
    /\ last_call.el.macro = "warning"
    /\ last_call.kind = "return"
    /\ last_call.value[2] = "CAUTION"

\* C15: for an <li> with the data-inline-task-id attribute convert_li returns
\* the item's markdown with its first "- " replaced, by "- [x] " when the
\* element has the class checked and by "- [ ] " otherwise, every other piece
\* as it was (all of it when there is no "- "); for an <li> without the
\* attribute it returns the markdown as it was.
C15_TaskItemFirstBulletRewritten ==
    last_call.handler = "convert_li" =>
        LET md == last_call.el.md
            out == last_call.value
            box == IF "checked" \in Range(last_call.el.class)
                   THEN "- [x] " ELSE "- [ ] "
        IN  /\ last_call.kind = "return"
            /\ Len(out) = Len(md)
            /\ IF last_call.el.task_id = None THEN out = md
               ELSE \A i \in 1..Len(md) :
                        out[i] = IF md[i] = "- " /\ \A j \in 1..(i - 1) : md[j] # "- "
                                 THEN box ELSE md[i]

\* C15's case: a checked task item whose text holds "- " once more.
C15_Witness ==
    /\ last_call.handler = "convert_li"
    /\ last_call.el.task_id = "7"
    /\ last_call.el.class = <<"checked">>
    /\ last_call.el.md = <<"- ", "a ", "- ", "b", "\n">>
    /\ last_call.value = <<"- [x] ", "a ", "- ", "b", "\n">>

\* The <div> elements of the export view that have the class.
Matching(body_export, class) ==
    {i \in 1..Len(body_export) : body_export[i][1] = class}

\* C20: convert_div for a toc macro (a jira macro) returns the conversion of
\* the toc-macro (jira-table) element of the export view when there is
\* exactly one, and the text it was given, unchanged, when there is none or
\* more than one; it raises nothing.
C20_MacroEnrichedOnlyFromSingleMatch ==
    (last_call.handler = "convert_div" /\ last_call.el.macro \in {"toc", "jira"}) =>
        LET at == Matching(last_call.el.body_export,
                           IF last_call.el.macro = "toc" THEN "toc-macro"
                           ELSE "jira-table")
        IN  /\ last_call.kind = "return"
            /\ IF Cardinality(at) = 1
               THEN \E i \in at :
                        last_call.value = <<"process_tag", last_call.el.body_export[i]>>
               ELSE last_call.value = <<"text", last_call.el.text>>

\* C20's case: the export view holds two toc-macro elements; convert_div
\* returned the text and the conversion of the page goes on.
C20_Witness ==
    /\ last_call.handler = "convert_div"
    /\ last_call.el.macro = "toc"
    /\ Cardinality(Matching(last_call.el.body_export, "toc-macro")) = 2
    /\ last_call.value = <<"text", last_call.el.text>>
    /\ pc = "export_markdown"

\* C18 (as claimed): whatever lookups were made, the remote has returned
\* each space to Space.from_key at most once and each page to Page.from_id
\* at most once.
C18_FetchedAtMostOncePerKey ==
    /\ \A k \in 1..Len(space_fetches) : space_fetches[k] <= 1
    /\ \A k \in PageKeys : page_fetches[k] <= 1

\* C19 (as claimed): when the search of Page.descendants fails with HTTP 404
\* or 403 the property raises ApiError, and when it fails in any other way
\* it raises the error of the search.
C19_NotFoundOrForbiddenIsApiError ==
    last_descendants.answer[1] \notin {"none", "ok"} =>
        /\ last_descendants.kind = "raise"
        /\ IF /\ last_descendants.answer[1] = "HTTPError"
              /\ last_descendants.answer[2] \in {404, 403}
           THEN last_descendants.exc[1] = "ApiError"
           ELSE last_descendants.exc = last_descendants.answer

\* The last Space.export found no pages.txt under its root and returned
\* from the enumeration; it found one that it could read.
FirstSpaceExport(x) == x.root # "none" /\ ~x.existed /\ x.kind = "return"
LaterSpaceExport(x) == x.root # "none" /\ x.existed /\ x.readable

\* What a Space.export that found pages.txt does: no enumeration, and
\* export_pages is given the lines of the file, in order, as strs.
UsesCachedIds(x) ==
    /\ ~x.enumerated
    /\ x.kind = "return"
    /\ Len(x.passed) = Len(x.before)
    /\ \A i \in 1..Len(x.before) : x.passed[i] = <<"str", x.before[i]>>
    /\ pages_file[x.root].lines = x.before
    /\ mode = "batch" => page_ids = x.passed

\* What a Space.export that found no pages.txt leaves: the file, holding
\* the ids it passes to export_pages, one per line and in order.
WritesIds(x) ==
    /\ pages_file[x.root].exists
    /\ Len(pages_file[x.root].lines) = Len(x.passed)
    /\ \A i \in 1..Len(x.passed) : pages_file[x.root].lines[i] = x.passed[i][2]
    /\ mode = "batch" => page_ids = x.passed

C21_PassedIdsBelongToSpace ==
    (last_space_export.root # "none" /\ last_space_export.kind = "return") =>
        \A i \in 1..Len(last_space_export.passed) :
            Text(last_space_export.passed[i]) \in PagesOfSpace(last_space_export.space)

\* The step runs convert_img past its attachment lookup.
ConvertsImg == conversions' = conversions + 1

\* C22: whenever convert_img reads the global output root, it is the path
\* the invocation in progress was called with, and every asset file a step
\* writes is under that path's assets directory, whatever roots earlier
\* invocations exported into.
C22_AssetsUnderInvocationPath ==
    [][/\ ConvertsImg => output_root_path = output_path
       /\ \A f \in files' \ files : f[1] = output_path]_vars

\* C22's case: a second invocation, into a root other than the first one's,
\* wrote an asset, and the first one's asset is under the first root.
C22_Witness ==
    /\ runs = 2
    /\ last_img.wrote
    /\ last_img.root = output_path
    /\ \E f \in files : f[1] # output_path
    /\ \E f \in files : f[1] = output_path

\* The log of the attachment loop is that of the page the batch loop is at.
AttachmentsOfCurrentPage ==
    /\ mode = "batch"
    /\ idx > 0
    /\ att_log # <<>>
    /\ att_log[1].run = runs
    /\ att_log[1].pos = idx

\* C23: an attachment whose file exists is not downloaded and its file is
\* left as it was; a download that fails with an HTTP error writes no file
\* and raises nothing (only another failure leaves the loop), so the loop
\* goes on over the page's remaining attachments and, once export_page has
\* returned to export_pages, the page's id is appended to the log.
C23_AttachmentExportSkips ==
    /\ \A i \in 1..Len(att_log) :
           LET e == att_log[i]
           IN  /\ (e.exported /\ e.before # NoContent) =>
                       (~e.get /\ ~e.wrote /\ e.after = e.before /\ e.kind = "return")
               /\ (e.get /\ e.response[1] = "HTTPError") =>
                       (~e.wrote /\ e.after = NoContent /\ e.kind = "return")
               /\ e.kind = "raise" => e.response[1] \notin {"ok", "HTTPError"}
    /\ (AttachmentsOfCurrentPage /\ pc = "export_attachments") =>
           /\ Len(att_log) = att_idx
           /\ \A i \in 1..Len(att_log) :
                  att_log[i].att = PageAttachments(CurrentPage)[i]
    /\ (AttachmentsOfCurrentPage /\ pc = "append") =>
           Len(att_log) = Len(PageAttachments(CurrentPage))
    /\ (/\ AttachmentsOfCurrentPage
        /\ pc = "loop"
        /\ \A i \in 1..Len(att_log) : att_log[i].kind = "return") =>
           FormatLine(CurrentPage) \in processed_pages_file[output_path]

\* C23's case: in a batch run the first attachment of the page was on disk
\* from an earlier export and was passed over, the download of the second
\* failed with an HTTP error, and the page's id is in the log.
C23_Witness ==
    /\ AttachmentsOfCurrentPage
    /\ pc = "loop"
    /\ Len(att_log) = 2
    /\ att_log[1].exported /\ att_log[1].before # NoContent /\ ~att_log[1].get
    /\ att_log[2].get /\ att_log[2].response[1] = "HTTPError"
    /\ att_log[2].after = NoContent
    /\ FormatLine(CurrentPage) \in processed_pages_file[output_path]

\* The last export_markdown call was that of the page the loop is at.
MarkdownOfCurrentPage == markdown_log.run = runs /\ markdown_log.pos = idx

\* The page the batch loop is at is between the start of its export and the
\* append of its id.
MidPage ==
    /\ mode = "batch"
    /\ pc \in {"from_id", "export_markdown", "export_attachments", "append"}

\* The order of the steps of a page: attachments are exported only once the
\* Markdown file is written; the id is appended only once both steps have
\* returned; an exception of the Markdown step leaves the attachments of
\* the page unexported and its id unappended.
StepsInOrder ==
    /\ AttachmentsOfCurrentPage =>
           (MarkdownOfCurrentPage /\ markdown_log.kind = "return")
    /\ (mode = "batch" /\ idx \in appended_run) =>
           /\ MarkdownOfCurrentPage /\ markdown_log.kind = "return"
           /\ AttachmentsOfCurrentPage
           /\ Len(att_log) = Len(PageAttachments(CurrentPage))
           /\ \A i \in 1..Len(att_log) : att_log[i].kind = "return"
    /\ (mode = "batch" /\ MarkdownOfCurrentPage /\ markdown_log.kind = "raise") =>
           /\ ~AttachmentsOfCurrentPage
           /\ idx \notin appended_run
           /\ pc = "loop"

\* C24 (as claimed): the steps of a page come in order, and while a page is
\* between the start of its export and the append (where a termination of
\* the process leaves the log as it is) its id is not in the log.
C24_MidPageIdAbsent ==
    /\ StepsInOrder
    /\ MidPage => FormatLine(CurrentPage) \notin processed_pages_file[output_path]

\* C24 (amended): the steps of a page come in order, and while a page is
\* between the start of its export and the append its export has appended
\* nothing: its id is in the log only if an earlier export of that id into
\* the root returned.
C24_StepsInOrder ==
    /\ StepsInOrder
    /\ MidPage =>
           /\ idx \notin appended_run
           /\ FormatLine(CurrentPage) \in processed_pages_file[output_path] =>
                  <<output_path, Text(CurrentPage)>> \in returned

\* C24's case: the process was killed after the Markdown file of the first
\* page of the first run was written and one of its attachments exported,
\* and the log is empty.
C24_Witness ==
    /\ outcome = "killed"
    /\ runs = 1
    /\ markdown_log = [run |-> 1, pos |-> 1, kind |-> "return"]
    /\ Len(att_log) = 1 /\ att_log[1].run = 1 /\ att_log[1].pos = 1
    /\ att_log[1].wrote
    /\ processed_pages_file["out"] = {}

\* The hash the asset file of a src is named by: of the payload's first
\* line for a base64 data: URI the pattern matches, of the src otherwise.
AssetHash(src) ==
    IF StartsWithData(src) /\ DataMatches(src) THEN Md5(Base64Data(src))
    ELSE Md5(src)

\* The conversion tried to fetch or to decode, and saved nothing.
FetchFailed(c) == (c.get \/ c.decode) /\ ~c.wrote

====
